---- MODULE Spec2Model ----
(***************************************************************************)
(* Verification model of the product-data cron job:                        *)
(*   - ProductDataCronJob (src/unnamed/part_001): the re-entrancy guard    *)
(*     and the stage sequence of executeJob / runShopifyOnly /             *)
(*     runCreateProductsOnly;                                              *)
(*   - FTPClient (src/src/ftpClient.js): downloadLatestCSV's retry loop,   *)
(*     downloadFile's backup / verify / restore protocol, and              *)
(*     getLatestCSVFile's selection of the newest CSV file;                *)
(*   - ShopifyClient (src/src/ftpClient.js): processProductsFromCSV, its   *)
(*     reconciliation of the feed with the store and its batch dispatch;   *)
(*   - ProductDataCronJob.cleanupOldFiles (src/unnamed/part_001);          *)
(*   - ShopifyClient.doesProductNeedUpdate's variant comparison and        *)
(*     ShopifyClient.generateHandle (src/src/ftpClient.js);                *)
(*   - ContainerManager (src/unnamed/part_000): the supervision of the     *)
(*     cron child and the shutdown sequence.                               *)
(* The specifications that share the module:                               *)
(*   Spec          the orchestrator (triggers interleaved with a run),     *)
(*   FairSpec      Spec with every started invocation going on,            *)
(*   SpecFetch     one process after another calling downloadLatestCSV,    *)
(*   SpecLatest    getLatestCSVFile applied to every bounded listing,      *)
(*   SpecReconcile categorizeProducts and buildUpdateData applied to one   *)
(*                 feed record against every bounded store snapshot,       *)
(*   SpecProcess   processProductsFromCSV run over every bounded feed,     *)
(*   SpecCleanup   cleanupOldFiles run over every bounded directory,       *)
(*   SpecCompare   the variant comparison applied to every stored form of  *)
(*                 a variant's fields,                                     *)
(*   SpecHandle    generateHandle applied to every bounded title,          *)
(*   FairSpecDispatch  processProductsFromCSV run to its end under every   *)
(*                 environment's options,                                  *)
(*   SpecContainer the container manager with its children, timers and     *)
(*                 signals.                                                *)
(***************************************************************************)
EXTENDS Integers, Sequences, FiniteSets, TLC

VARIABLES
    \* ---- ProductDataCronJob ----
    isRunning,      \* this.isRunning
    pc,             \* position of each invocation of a job method
    kind,           \* which method each invocation is
    stages,         \* the stages each invocation has completed, in order
    threw,          \* whether the invocation's promise rejected
    \* ---- FTPClient.downloadLatestCSV / downloadFile ----
    fpc,            \* position inside downloadLatestCSV / downloadFile
    attempt,        \* let attempt (downloadLatestCSV)
    connected,      \* whether this.client holds an open connection
    dest,           \* file at localFilePath
    backup,         \* file at `${localFilePath}.backup`
    remoteFileSize, \* let remoteFileSize (downloadFile)
    error,          \* the error being propagated
    result,         \* what the last downloadLatestCSV call settled with
    calls,          \* number of downloadLatestCSV calls started so far
    epoch,          \* number of process exits so far
    hist,           \* history of the current call (ghost)
    \* ---- FTPClient.getLatestCSVFile ----
    listing,        \* what this.client.list(remotePath) resolves with
    latest,         \* what getLatestCSVFile settled with
    \* ---- ShopifyClient.processProductsFromCSV ----
    shop,           \* the call of processProductsFromCSV, see NoCall
    \* ---- ProductDataCronJob.cleanupOldFiles ----
    cleanup,        \* the call of cleanupOldFiles, see NoCleanup
    \* ---- ContainerManager ----
    container       \* the container's entry process, see NoContainer

jobVars   == <<isRunning, pc, kind, stages, threw>>
fetchVars == <<fpc, attempt, connected, dest, backup, remoteFileSize, error,
               result, calls, epoch, hist>>
listVars  == <<listing, latest>>
shopVars  == <<shop>>
cleanupVars == <<cleanup>>
containerVars == <<container>>
vars      == <<jobVars, fetchVars, listVars, shopVars, cleanupVars,
               containerVars>>

\* What the actions of one component leave alone.
jobFrame   == <<fetchVars, listVars, shopVars, cleanupVars,
                 containerVars>>
fetchFrame == <<jobVars, listVars, shopVars, cleanupVars,
                 containerVars>>
listFrame  == <<jobVars, fetchVars, shopVars, cleanupVars,
                 containerVars>>
shopFrame  == <<jobVars, fetchVars, listVars, cleanupVars,
                 containerVars>>
cleanupFrame == <<jobVars, fetchVars, listVars, shopVars,
                 containerVars>>
containerFrame == <<jobVars, fetchVars, listVars, shopVars, cleanupVars>>

(***************************************************************************)
(* Bounds                                                                  *)
(***************************************************************************)
MaxTriggers == 3
MaxCalls    == 2
MaxRestarts == 1
MaxFiles    == 3
MaxTime     == 2
MaxDiffs    == 2
MaxFeed     == 3
MaxBatchSize == 2
MaxTitle    == 3
MaxApplications == 2
MaxRounds   == 5
MaxSpawns   == 3
MaxSignals  == 2

(***************************************************************************)
(* ProductDataCronJob (src/unnamed/part_001)                               *)
(*                                                                         *)
(* Every call of executeJob / runShopifyOnly / runCreateProductsOnly is an *)
(* invocation.  pc[i] names what invocation i is awaiting: "new" (not yet  *)
(* called), "skipped" (returned at the isRunning check), a stage name,     *)
(* "close" (the finally block of executeJob awaits ftpClient.close()) or   *)
(* "ended" (the invocation's promise has settled).                         *)
(***************************************************************************)
Invocations == 1..MaxTriggers

Kinds == {"executeJob", "runShopifyOnly", "runCreateProductsOnly"}

\* The stages of executeJob's try block, in program order.
ExecStages == <<"connect", "download", "fileinfo", "parse", "fetch",
                "dispatch", "persist", "cleanup">>

JobPcs == {"new", "skipped", "ended", "close", "readdir", "create",
           "fetchNoData"} \cup {ExecStages[n] : n \in 1..Len(ExecStages)}

\* The test `if (this.isRunning)` at the head of the three job methods.
AlreadyRunningOff == FALSE
AlreadyRunning == isRunning

\* FTPClient.close() catches whatever this.client.close() throws.
CloseSwallowsErrorOff == FALSE
CloseSwallowsError == TRUE

\* JavaScript defines no global NULL: evaluating the argument list of
\* createProductsFromCSV(result.data, NULL, createOptions) throws.
NullIsDefined == FALSE

\* FTPClient.connect's catch block logs the error and throws it again.
ConnectRethrowsOff == FALSE
ConnectRethrows == TRUE

\* executeJob's catch block logs the error and does not throw it again.
CatchSwallowsErrorOff == FALSE
CatchSwallowsError == TRUE

\* The first thing a method awaits after it has set isRunning.
FirstPc(k) == IF k = "executeJob" THEN "connect" ELSE "readdir"

\* cleanupOldFiles catches its own errors; every other stage may throw.
CanThrow(k, p) == ~(k = "executeJob" /\ p = "cleanup")

\* The stage name recorded for a position.
StageOf(p) == IF p = "fetchNoData" THEN "fetch" ELSE p

\* Where the method goes when stage p completed without throwing: the next
\* stage, "close" (executeJob's finally), "return" or "throw".  br is the
\* branch the completed stage selects: whether readdirSync found a CSV file,
\* and whether the parsed data is non-empty.
SuccOutOfOrder(k, p, br) ==
    CASE k = "executeJob" ->
           (CASE p = "connect"  -> "download"
              [] p = "download" -> "fileinfo"
              [] p = "fileinfo" -> "parse"
              [] p = "parse"    -> "dispatch"
              [] p = "dispatch" -> "fetch"
              [] p = "fetch"    -> "persist"
              [] p = "persist"  -> "cleanup"
              [] OTHER          -> "close")
      [] k = "runShopifyOnly" ->
           (CASE p = "readdir"     -> IF br THEN "fileinfo" ELSE "fetchNoData"
              [] p = "fileinfo"    -> "parse"
              [] p = "parse"       -> IF br THEN "fetch" ELSE "fetchNoData"
              [] p = "fetch"       -> "create"
              [] p = "fetchNoData" -> "persist"
              [] p = "create"      -> "persist"
              [] OTHER             -> "return")
      [] OTHER ->
           (CASE p = "readdir"  -> IF br THEN "fileinfo" ELSE "throw"
              [] p = "fileinfo" -> "parse"
              [] p = "parse"    -> IF NullIsDefined THEN "create" ELSE "throw"
              [] p = "create"   -> "persist"
              [] OTHER          -> "return")
Succ(k, p, br) ==
    CASE k = "executeJob" ->
           (CASE p = "connect"  -> "download"
              [] p = "download" -> "fileinfo"
              [] p = "fileinfo" -> "parse"
              [] p = "parse"    -> "fetch"
              [] p = "fetch"    -> "dispatch"
              [] p = "dispatch" -> "persist"
              [] p = "persist"  -> "cleanup"
              [] OTHER          -> "close")
      [] k = "runShopifyOnly" ->
           (CASE p = "readdir"     -> IF br THEN "fileinfo" ELSE "fetchNoData"
              [] p = "fileinfo"    -> "parse"
              [] p = "parse"       -> IF br THEN "fetch" ELSE "fetchNoData"
              [] p = "fetch"       -> "create"
              [] p = "fetchNoData" -> "persist"
              [] p = "create"      -> "persist"
              [] OTHER             -> "return")
      [] OTHER ->
           (CASE p = "readdir"  -> IF br THEN "fileinfo" ELSE "throw"
              [] p = "fileinfo" -> "parse"
              [] p = "parse"    -> IF NullIsDefined THEN "create" ELSE "throw"
              [] p = "create"   -> "persist"
              [] OTHER          -> "return")

JobInit ==
    /\ isRunning = FALSE
    /\ pc = [i \in Invocations |-> "new"]
    /\ kind = [i \in Invocations |-> "executeJob"]
    /\ stages = [i \in Invocations |-> <<>>]
    /\ threw = [i \in Invocations |-> FALSE]

\* A trigger calls method k: the isRunning check, and up to the first await.
\* Invocations are numbered in the order of their calls.
Trigger(i, k) ==
    /\ pc[i] = "new"
    /\ \A j \in Invocations : j < i => pc[j] # "new"
    /\ kind' = [kind EXCEPT ![i] = k]
    /\ IF AlreadyRunning
         THEN /\ pc' = [pc EXCEPT ![i] = "skipped"]
              /\ UNCHANGED isRunning
         ELSE /\ isRunning' = TRUE
              /\ pc' = [pc EXCEPT ![i] = FirstPc(k)]
    /\ UNCHANGED <<stages, threw, jobFrame>>

\* The stage invocation i is at settles, and the method runs to its next
\* await or to its end.  executeJob's catch block logs and falls into the
\* finally block, which calls ftpClient.close() and awaits it; the other two
\* methods rethrow, their finally block clearing isRunning on the way out.
JobStep(i) ==
    /\ pc[i] \notin {"new", "skipped", "ended", "close"}
    /\ \E ok \in BOOLEAN, br \in BOOLEAN :
         LET k    == kind[i]
             \* the awaited call settles without an error reaching the method
             okay == \/ ok
                     \/ ~CanThrow(k, pc[i])
                     \/ pc[i] = "connect" /\ ~ConnectRethrows
             next == IF okay THEN Succ(k, pc[i], br) ELSE "throw"
             \* a connection that was not established is not a completed stage
             done == IF okay /\ (ok \/ pc[i] # "connect")
                       THEN Append(stages[i], StageOf(pc[i]))
                       ELSE stages[i]
         IN  /\ stages' = [stages EXCEPT ![i] = done]
             /\ IF k = "executeJob"
                  THEN /\ pc' = [pc EXCEPT ![i] =
                                   IF next = "throw" THEN "close" ELSE next]
                       /\ UNCHANGED <<isRunning, threw>>
                  ELSE IF next \in {"throw", "return"}
                  THEN /\ pc' = [pc EXCEPT ![i] = "ended"]
                       /\ threw' = [threw EXCEPT ![i] = (next = "throw")]
                       /\ isRunning' = FALSE
                  ELSE /\ pc' = [pc EXCEPT ![i] = next]
                       /\ UNCHANGED <<isRunning, threw>>
    /\ UNCHANGED <<kind, jobFrame>>

\* executeJob's finally block: `await this.ftpClient.close()` settles, then
\* `this.isRunning = false`.  closeErr: this.client.close() threw.
JobClose(i) ==
    /\ pc[i] = "close"
    /\ \E closeErr \in BOOLEAN :
         IF closeErr /\ ~CloseSwallowsError
           THEN /\ threw' = [threw EXCEPT ![i] = TRUE]
                /\ UNCHANGED isRunning
           ELSE /\ isRunning' = FALSE
                /\ threw' = [threw EXCEPT ![i] =
                                /\ ~CatchSwallowsError
                                /\ Len(stages[i]) < Len(ExecStages)]
    /\ pc' = [pc EXCEPT ![i] = "ended"]
    /\ UNCHANGED <<kind, stages, jobFrame>>

JobNext ==
    \/ \E i \in Invocations, k \in Kinds : Trigger(i, k)
    \/ \E i \in Invocations : JobStep(i)
    \/ \E i \in Invocations : JobClose(i)

(***************************************************************************)
(* FTPClient.downloadLatestCSV and downloadFile (src/src/ftpClient.js)     *)
(*                                                                         *)
(* The local filesystem is the file at localFilePath (dest) and its        *)
(* .backup sibling (backup).  A file is [id, size]: id 0 is "no file", 1   *)
(* the file that was there before the first call, 1 + c the file written   *)
(* by the c-th downloadLatestCSV call.  fpc names what the call awaits, or *)
(* the synchronous step it is about to take:                               *)
(*   idle       no call in progress                                        *)
(*   list       getLatestCSVFile awaits this.client.list                   *)
(*   size       downloadFile awaits this.client.list('/') for the size     *)
(*   transfer   downloadWithProgress's promise is pending                  *)
(*   verify     downloadFile, lines 93-105                                 *)
(*   commit     downloadFile, lines 107-115                                *)
(*   restore    downloadFile's catch block, lines 116-137                  *)
(*   rename     downloadFile's catch block, line 125                       *)
(*   caught     downloadLatestCSV's catch block, lines 302-319             *)
(*   sleep      downloadLatestCSV awaits this.sleep(this.retryDelay)       *)
(*   reconnect  downloadLatestCSV awaits this.connect()                    *)
(***************************************************************************)
maxRetries == 10

toleranceBytes == 1024

\* Sizes this.client.list reports for the remote file (0: none reported).
RemoteSizes == {2048, 2050, 4096}

\* Sizes the local file can have while and after the transfer writes to it.
LocalSizes == {0, 1024, 1025, 2048, 2050, 3074, 3075}

NoFile == [id |-> 0, size |-> 0]

OrigFile == [id |-> 1, size |-> 2048]

\* fs.existsSync
Exists(f) == f.id # 0

NoError == [kind |-> "none", attempt |-> 0]

NoResult == [status |-> "none", attempt |-> 0, file |-> 0, error |-> NoError]

NoHist == [pre |-> NoFile, preBackup |-> NoFile, df |-> "none",
           settledBy |-> "none", half |-> FALSE, verified |-> FALSE,
           since |-> <<>>, before |-> <<>>, failures |-> 0]

Abs(n) == IF n < 0 THEN -n ELSE n

\* `while (attempt < this.maxRetries)`
LoopCond(a) == a < maxRetries

\* `if (attempt < this.maxRetries)` in downloadLatestCSV's catch block
RetryCondOffByOne(a) == a <= maxRetries
RetryCond(a) == a < maxRetries

\* downloadFile, lines 64-69: the backup file after the rename of an existing
\* destination file onto the .backup path (d: destination, b: backup before).
BackupExistingDrop(d, b) == b
BackupExisting(d, b) == IF Exists(d) THEN d ELSE b

\* downloadFile, line 103: the size check fails.
SizeMismatchSkipped(local, remote) == FALSE
SizeMismatchWide(local, remote) ==
    remote > 0 /\ Abs(local - remote) > 2 * toleranceBytes
SizeMismatch(local, remote) ==
    remote > 0 /\ Abs(local - remote) > toleranceBytes

\* downloadFile, line 121: the catch block restores when a backup exists.
RestoresBackupNever(b) == FALSE
RestoresBackup(b) == Exists(b)

\* downloadFile, lines 110-113: the backup file after a verified download.
BackupAfterSuccessKept(b) == b
BackupAfterSuccess(b) == NoFile

FetchInit ==
    /\ fpc = "idle"
    /\ attempt = 0
    /\ connected = FALSE
    /\ dest = OrigFile
    /\ backup = NoFile
    /\ remoteFileSize = 0
    /\ error = NoError
    /\ result = NoResult
    /\ calls = 0
    /\ epoch = 0
    /\ hist = NoHist

\* The head of the while loop with attempt = a: attempt++ and the call of
\* getLatestCSVFile, or the fall out of the loop (the function then returns
\* undefined).
LoopHead(a, h) ==
    IF LoopCond(a)
      THEN /\ attempt' = a + 1
           /\ fpc' = "list"
           /\ hist' = [h EXCEPT !.before = h.since, !.since = <<>>,
                                !.df = "none", !.settledBy = "none",
                                !.half = FALSE, !.verified = FALSE]
           /\ result' = NoResult
      ELSE /\ attempt' = a
           /\ fpc' = "idle"
           /\ result' = [NoResult EXCEPT !.status = "returned", !.attempt = a]
           /\ hist' = h

\* executeJob has connected, and calls downloadLatestCSV.
FetchCall ==
    /\ UNCHANGED fetchFrame
    /\ fpc = "idle"
    /\ calls < MaxCalls
    /\ calls' = calls + 1
    /\ connected' = TRUE
    /\ LoopHead(0, NoHist)
    /\ error' = NoError
    /\ remoteFileSize' = 0
    /\ UNCHANGED <<dest, backup, epoch>>

\* An attempt failed with error e before or outside downloadFile's own catch
\* block: control is in downloadLatestCSV's catch block.
Fail(e, h) ==
    /\ error' = e
    /\ fpc' = "caught"
    /\ hist' = [h EXCEPT !.since = <<>>, !.failures = h.failures + 1]

\* getLatestCSVFile settles.  Without a connection the listing fails.  When
\* it returns a file, downloadFile is called and runs up to its first await:
\* an existing destination file is renamed onto the .backup path.
ListSettles ==
    /\ UNCHANGED fetchFrame
    /\ fpc = "list"
    /\ \E out \in (IF connected THEN {"file", "nocsv", "throw"} ELSE {"throw"}) :
         IF out = "file"
           THEN /\ backup' = BackupExisting(dest, backup)
                /\ dest' = NoFile
                /\ hist' = [hist EXCEPT !.pre = dest, !.preBackup = backup,
                                        !.df = "active"]
                /\ fpc' = "size"
                /\ UNCHANGED error
           ELSE /\ Fail([kind |-> IF out = "nocsv" THEN "NoCsv" ELSE "ListFailed",
                         attempt |-> attempt], hist)
                /\ UNCHANGED <<dest, backup>>
    /\ UNCHANGED <<attempt, connected, remoteFileSize, result, calls, epoch>>

\* The size lookup settles (a failure is caught and leaves remoteFileSize 0),
\* and downloadWithProgress opens the write stream, which creates the file.
SizeSettles ==
    /\ UNCHANGED fetchFrame
    /\ fpc = "size"
    /\ \E sz \in RemoteSizes \cup {0} : remoteFileSize' = sz
    /\ dest' = [id |-> 1 + calls, size |-> 0]
    /\ fpc' = "transfer"
    /\ UNCHANGED <<attempt, connected, backup, error, result, calls, epoch, hist>>

\* The transfer writes data to the stream.
Chunk ==
    /\ UNCHANGED fetchFrame
    /\ fpc = "transfer"
    /\ \E sz \in LocalSizes : sz > dest.size /\ dest' = [dest EXCEPT !.size = sz]
    /\ UNCHANGED <<fpc, attempt, connected, backup, remoteFileSize, error,
                   result, calls, epoch, hist>>

\* this.client.downloadTo resolves: lines 196-208.
TransferResolves ==
    /\ UNCHANGED fetchFrame
    /\ fpc = "transfer"
    /\ fpc' = "verify"
    /\ hist' = [hist EXCEPT !.settledBy = "transfer",
                            !.half = (remoteFileSize > 0
                                      /\ 2 * dest.size = remoteFileSize)]
    /\ UNCHANGED <<attempt, connected, dest, backup, remoteFileSize, error,
                   result, calls, epoch>>

\* The progress timer finds the expected size reached: lines 164-182.
TimerResolvesAnySize ==
    /\ UNCHANGED fetchFrame
    /\ fpc = "transfer"
    /\ fpc' = "verify"
    /\ hist' = [hist EXCEPT !.settledBy = "timer"]
    /\ UNCHANGED <<attempt, connected, dest, backup, remoteFileSize, error,
                   result, calls, epoch>>
TimerResolves ==
    /\ UNCHANGED fetchFrame
    /\ fpc = "transfer"
    /\ remoteFileSize > 0
    /\ dest.size >= remoteFileSize
    /\ fpc' = "verify"
    /\ hist' = [hist EXCEPT !.settledBy = "timer"]
    /\ UNCHANGED <<attempt, connected, dest, backup, remoteFileSize, error,
                   result, calls, epoch>>

\* this.client.downloadTo rejects (lines 210-217) or the write stream emits
\* 'error' (lines 220-226): downloadFile's catch block is entered.
TransferFails ==
    /\ UNCHANGED fetchFrame
    /\ fpc = "transfer"
    /\ \E k \in {"Transfer", "Stream"} :
         /\ error' = [kind |-> k, attempt |-> attempt]
         /\ hist' = [hist EXCEPT !.settledBy = k]
    /\ fpc' = "restore"
    /\ UNCHANGED <<attempt, connected, dest, backup, remoteFileSize, result,
                   calls, epoch>>

\* downloadFile, lines 93-105: the size check on the final local size.
Verify ==
    /\ UNCHANGED fetchFrame
    /\ fpc = "verify"
    /\ IF SizeMismatch(dest.size, remoteFileSize)
         THEN /\ error' = [kind |-> "SizeMismatch", attempt |-> attempt]
              /\ fpc' = "restore"
              /\ UNCHANGED hist
         ELSE /\ hist' = [hist EXCEPT !.verified = TRUE]
              /\ fpc' = "commit"
              /\ UNCHANGED error
    /\ UNCHANGED <<attempt, connected, dest, backup, remoteFileSize, result,
                   calls, epoch>>

\* downloadFile, lines 107-115: the backup is deleted and the path returned,
\* which downloadLatestCSV returns in turn.
Commit ==
    /\ UNCHANGED fetchFrame
    /\ fpc = "commit"
    /\ backup' = IF Exists(backup) THEN BackupAfterSuccess(backup) ELSE backup
    /\ result' = [status |-> "returned", attempt |-> attempt,
                  file |-> dest.id, error |-> NoError]
    /\ hist' = [hist EXCEPT !.df = "returned"]
    /\ fpc' = "idle"
    /\ UNCHANGED <<attempt, connected, dest, remoteFileSize, error, calls, epoch>>

\* downloadFile's catch block, lines 119-137, up to the rename of line 125:
\* with a backup, the partial download is unlinked; without one, the partial
\* download is cleaned up and the error rethrown.
Restore ==
    /\ UNCHANGED fetchFrame
    /\ fpc = "restore"
    /\ IF RestoresBackup(backup)
         THEN IF Exists(dest)
                THEN /\ dest' = NoFile
                     /\ fpc' = "rename"
                     /\ UNCHANGED <<backup, error, hist>>
                ELSE /\ dest' = backup
                     /\ backup' = NoFile
                     /\ Fail(error, [hist EXCEPT !.df = "threw"])
         ELSE /\ dest' = NoFile
              /\ UNCHANGED backup
              /\ Fail(error, [hist EXCEPT !.df = "threw"])
    /\ UNCHANGED <<attempt, connected, remoteFileSize, result, calls, epoch>>

\* downloadFile's catch block, lines 125-126 and 139: the backup is renamed
\* back into place and the error rethrown.
Rename ==
    /\ UNCHANGED fetchFrame
    /\ fpc = "rename"
    /\ dest' = backup
    /\ backup' = NoFile
    /\ Fail(error, [hist EXCEPT !.df = "threw"])
    /\ UNCHANGED <<attempt, connected, remoteFileSize, result, calls, epoch>>

\* downloadLatestCSV's catch block, lines 302-319: retry or give up.
Caught ==
    /\ UNCHANGED fetchFrame
    /\ fpc = "caught"
    /\ IF RetryCond(attempt)
         THEN /\ fpc' = "sleep"
              /\ UNCHANGED result
         ELSE /\ fpc' = "idle"
              /\ result' = [status |-> "threw", attempt |-> attempt,
                            file |-> 0, error |-> error]
    /\ UNCHANGED <<attempt, connected, dest, backup, remoteFileSize, error,
                   calls, epoch, hist>>

\* The retry delay has elapsed: lines 307-312, close() and the call of
\* connect().
SleepSettles ==
    /\ UNCHANGED fetchFrame
    /\ fpc = "sleep"
    /\ connected' = FALSE
    /\ hist' = [hist EXCEPT !.since = hist.since \o <<"sleep", "close">>]
    /\ fpc' = "reconnect"
    /\ UNCHANGED <<attempt, dest, backup, remoteFileSize, error, result,
                   calls, epoch>>

\* connect() settles; a failure is logged (lines 313-315).  The loop goes on.
ReconnectSettles ==
    /\ UNCHANGED fetchFrame
    /\ fpc = "reconnect"
    /\ \E ok \in BOOLEAN :
         /\ connected' = ok
         /\ LoopHead(attempt,
                     [hist EXCEPT !.since = Append(hist.since,
                                     IF ok THEN "connect" ELSE "connectFailed")])
    /\ UNCHANGED <<dest, backup, remoteFileSize, error, calls, epoch>>

\* SIGINT / SIGTERM: the handlers of start() call process.exit(0) whatever
\* the job is awaiting (src/unnamed/part_001, lines 187-197).  The files stay;
\* the next process starts from fresh objects.
ProcessExit ==
    /\ UNCHANGED fetchFrame
    /\ fpc \in {"list", "size", "transfer", "sleep", "reconnect"}
    /\ epoch < MaxRestarts
    /\ epoch' = epoch + 1
    /\ fpc' = "idle"
    /\ attempt' = 0
    /\ connected' = FALSE
    /\ remoteFileSize' = 0
    /\ error' = NoError
    /\ result' = NoResult
    /\ hist' = NoHist
    /\ UNCHANGED <<dest, backup, calls>>

FetchNext ==
    \/ FetchCall
    \/ ListSettles
    \/ SizeSettles
    \/ Chunk
    \/ TransferResolves
    \/ TimerResolves
    \/ TransferFails
    \/ Verify
    \/ Commit
    \/ Restore
    \/ Rename
    \/ Caught
    \/ SleepSettles
    \/ ReconnectSettles
    \/ ProcessExit

(***************************************************************************)
(* FTPClient.listFiles and getLatestCSVFile (src/src/ftpClient.js)         *)
(*                                                                         *)
(* A listing is a sequence of entries [stem, ext, type, modifiedAt]: the   *)
(* name is stem followed by ext, type is basic-ftp's FileType (1 a file,   *)
(* 2 a directory), modifiedAt a timestamp.  Names compare as strings do:   *)
(* by stem, then by extension, upper case before lower case.               *)
(***************************************************************************)
Exts == <<".CSV", ".csv", ".txt">>

\* The entries a listing is drawn from: CSV files in both spellings, a file
\* of another extension, and a directory whose name ends in .csv.
Shapes == {[ext |-> ".csv", type |-> 1], [ext |-> ".CSV", type |-> 1],
           [ext |-> ".txt", type |-> 1], [ext |-> ".csv", type |-> 2]}

Entries == {[stem |-> st, ext |-> sh.ext, type |-> sh.type, modifiedAt |-> t] :
              st \in 1..MaxFiles, sh \in Shapes, t \in 1..MaxTime}

\* Listings of up to MaxFiles entries with different names.
Listings ==
    UNION {{l \in [1..n -> Entries] :
              \A i, j \in 1..n : i # j => l[i].stem # l[j].stem} :
           n \in 0..MaxFiles}

ExtRank(e) == CHOOSE k \in 1..Len(Exts) : Exts[k] = e

\* a.name < b.name as strings
NameLess(a, b) ==
    \/ a.stem < b.stem
    \/ a.stem = b.stem /\ ExtRank(a.ext) < ExtRank(b.ext)

\* String.prototype.toLowerCase on an extension
ToLowerCase(e) == IF e = ".CSV" THEN ".csv" ELSE e

\* listFiles' filter: file.name.toLowerCase().endsWith('.csv') && file.type === 1
IsCsvFileAnyType(f) == ToLowerCase(f.ext) = ".csv"
IsCsvFile(f) == ToLowerCase(f.ext) = ".csv" /\ f.type = 1

\* Array.prototype.filter
RECURSIVE Filter(_)
Filter(l) ==
    IF l = <<>> THEN <<>>
    ELSE IF IsCsvFile(Head(l)) THEN <<Head(l)>> \o Filter(Tail(l))
    ELSE Filter(Tail(l))

\* getLatestCSVFile's comparator: new Date(b.modifiedAt) - new Date(a.modifiedAt)
CompareOldestFirst(a, b) == a.modifiedAt - b.modifiedAt
Compare(a, b) == b.modifiedAt - a.modifiedAt

\* Array.prototype.sort, which is stable: x goes behind every element that
\* the comparator does not put behind it.
InsertSorted(sorted, x) ==
    LET k == Cardinality({i \in 1..Len(sorted) : Compare(sorted[i], x) <= 0})
    IN  SubSeq(sorted, 1, k) \o <<x>> \o SubSeq(sorted, k + 1, Len(sorted))

RECURSIVE Sort(_)
Sort(l) ==
    IF l = <<>> THEN <<>>
    ELSE InsertSorted(Sort(SubSeq(l, 1, Len(l) - 1)), l[Len(l)])

NoEntry == [stem |-> 0, ext |-> "", type |-> 0, modifiedAt |-> 0]

NoLatest == [status |-> "none", file |-> NoEntry]

\* getLatestCSVFile given what this.client.list resolved with.
LatestOf(l) ==
    LET files == Filter(l)
    IN  IF Len(files) = 0
          THEN [status |-> "threw", file |-> NoEntry]
          ELSE [status |-> "returned", file |-> Sort(files)[1]]

ListInit ==
    /\ listing = <<>>
    /\ latest = NoLatest

\* getLatestCSVFile is called and settles: this.client.list rejects, or
\* resolves with the listing.  It touches no local file.
GetLatestCSVFile ==
    /\ latest = NoLatest
    /\ \E listOk \in BOOLEAN :
         latest' = IF listOk THEN LatestOf(listing)
                   ELSE [status |-> "listFailed", file |-> NoEntry]
    /\ UNCHANGED <<listing, listFrame>>

(***************************************************************************)
(* ShopifyClient: feed records, mapping and comparison                     *)
(* (src/src/ftpClient.js)                                                  *)
(*                                                                         *)
(* JavaScript strings are TLA+ strings; null and undefined are two strings *)
(* no field holds otherwise.  Numbers parsed from strings are kept in      *)
(* hundredths (parseFloat("12.5") is 1250), whole numbers as integers.     *)
(* A feed record (csvItem) has the columns Item, Description, Status,      *)
(* MSRP, ContractPrice, Qty_Avail, UPC, Weight, Metal_Desc, Categories,    *)
(* ImageLink_1000 and Image1Link; an absent column is "".  A product has   *)
(* the fields the comparator reads; its images are their src URLs.         *)
(***************************************************************************)
null == "<null>"

undefined == "<undefined>"

\* What `if (s)`, `s || d` and `!s` test on a string-valued field.
Truthy(s) == s \notin {"", null, undefined}

\* a || b on string-valued operands.
OrElse(a, b) == IF Truthy(a) THEN a ELSE b

\* String.prototype.toLowerCase.
toLowerCase(s) ==
    CASE s = "Q1"          -> "q1"
      [] s = "Z9"          -> "z9"
      [] s = "Gold Ring"   -> "gold ring"
      [] s = "GOLD RING"   -> "gold ring"
      [] s = "Silver Ring" -> "silver ring"
      [] OTHER             -> s

\* The result of parsing a string that does not start with a number.
NaN == -1

\* parseFloat, in hundredths.
parseFloat(s) ==
    CASE s \in {"10", "10.0", "10.00"} -> 1000
      [] s \in {"12.5", "12.50"}       -> 1250
      [] s \in {"0", "0.00"}           -> 0
      [] s = "1"                       -> 100
      [] s = "2"                       -> 200
      [] OTHER                         -> NaN

\* parseInt.
parseInt(s) ==
    CASE s = "5"   -> 5
      [] s = "5.9" -> 5
      [] s = "7"   -> 7
      [] s = "0"   -> 0
      [] s = "2"   -> 2
      [] s = "-2"  -> -2
      [] OTHER     -> NaN

\* n || d on numbers.
NumOrElse(n, d) == IF n \in {0, NaN} THEN d ELSE n

\* priceStr.toString().replace(/[^\d.-]/g, '')
StripNonNumeric(s) ==
    CASE s = "$10.00" -> "10.00"
      [] s = "N/A"    -> ""
      [] OTHER        -> s

\* Number.prototype.toFixed(2) of a number given in hundredths.
toFixed(n) ==
    CASE n = 1000 -> "10.00"
      [] n = 1250 -> "12.50"
      [] n = 0    -> "0.00"

parsePrice(priceStr) ==
    IF ~Truthy(priceStr) THEN "0.00"
    ELSE LET price == parseFloat(StripNonNumeric(priceStr))
         IN  IF price = NaN THEN "0.00" ELSE toFixed(price)

\* Math.round(weight * 28.35), weight in hundredths of an ounce.
parseWeight(weightStr) ==
    IF ~Truthy(weightStr) THEN 0
    ELSE LET weight == parseFloat(StripNonNumeric(weightStr))
         IN  IF weight = NaN THEN 0
             ELSE (weight * 2835 + 5000) \div 10000

createVariant(csvItem) ==
    [ sku      |-> OrElse(csvItem.Item, ""),
      barcode  |-> OrElse(csvItem.UPC, ""),
      price    |-> parsePrice(OrElse(csvItem.MSRP, csvItem.ContractPrice)),
      compare_at_price |-> IF Truthy(csvItem.MSRP)
                             THEN parsePrice(csvItem.MSRP) ELSE null,
      inventory_quantity |-> LET n == parseInt(csvItem.Qty_Avail)
                             IN  IF n = NaN THEN 0 ELSE n,
      weight   |-> parseWeight(csvItem.Weight) ]

createImages(csvItem) ==
    (IF Truthy(csvItem.ImageLink_1000) THEN <<csvItem.ImageLink_1000>>
     ELSE <<>>)
    \o (IF Truthy(csvItem.Image1Link) THEN <<csvItem.Image1Link>> ELSE <<>>)

\* The HTML text, as the sequence of the parts it is concatenated from.
generateProductDescription(csvItem) ==
    LET description ==
            (IF Truthy(csvItem.Description)
               THEN <<"h3", csvItem.Description>> ELSE <<>>)
         \o (IF Truthy(csvItem.Metal_Desc)
               THEN <<"Material", csvItem.Metal_Desc>> ELSE <<>>)
         \o (IF Truthy(csvItem.Weight)
               THEN <<"Weight", csvItem.Weight>> ELSE <<>>)
    IN  IF description = <<>> THEN <<"Quality jewelry piece">>
        ELSE description

extractProductType(csvItem) ==
    IF csvItem.Categories = "Rings" THEN "Rings" ELSE "Jewelry"

\* tags.join(', ') of the Metal_Desc column alone.
generateTags(csvItem) == OrElse(csvItem.Metal_Desc, "")

\* getCategoryId: the id categoryMap holds for 'rings', or
\* defaultJewelryCategory when the record names no category.
getCategoryId(csvItem) ==
    IF ~Truthy(csvItem.Categories) THEN "aa-6-8"
    ELSE IF csvItem.Categories = "Rings" THEN "340"
    ELSE "aa-6-8"

\* The fields of the mapped product that the comparator and the patch read.
\* The mapping stores the category under `category`: product_category_id
\* is not a property of the mapped product.
mapCSVToShopifyProduct(csvItem) ==
    [ title        |-> OrElse(csvItem.Description,
                              OrElse(csvItem.Item, "Untitled Product")),
      body_html    |-> generateProductDescription(csvItem),
      product_type |-> extractProductType(csvItem),
      status       |-> IF csvItem.Status = "Active" THEN "active"
                       ELSE "draft",
      tags         |-> generateTags(csvItem),
      variants     |-> <<createVariant(csvItem)>>,
      images       |-> createImages(csvItem),
      category     |-> getCategoryId(csvItem),
      product_category_id |-> undefined ]

\* existingProduct = null: no product was found.
NoProduct ==
    [ id |-> 0, title |-> null, body_html |-> <<>>, product_type |-> null,
      tags |-> null, status |-> null, product_category_id |-> null,
      variants |-> <<>>, images |-> <<>> ]

\* Array.prototype.sort() on image URLs: by code unit, here by rank.
UrlRank(u) ==
    CASE u = "a.jpg" -> 1
      [] u = "b.jpg" -> 2
      [] u = "c.jpg" -> 3

RECURSIVE SortUrls(_)
SortUrls(urls) ==
    IF urls = <<>> THEN <<>>
    ELSE LET least == CHOOSE n \in 1..Len(urls) :
                          \A k \in 1..Len(urls) :
                              UrlRank(urls[n]) <= UrlRank(urls[k])
             rest  == [k \in 1..(Len(urls) - 1) |->
                          IF k < least THEN urls[k] ELSE urls[k + 1]]
         IN  <<urls[least]>> \o SortUrls(rest)

\* a !== b on two numbers.
NumbersDiffer(a, b) == a = NaN \/ b = NaN \/ a # b

\* parseFloat(csvVariant.price) !== parseFloat(existingVariant.price)
PriceChangedAsStrings(csvPrice, existingPrice) == csvPrice # existingPrice
PriceChanged(csvPrice, existingPrice) ==
    NumbersDiffer(parseFloat(csvPrice), parseFloat(existingPrice))

\* JSON.stringify(existingImageUrls.sort()) !==
\* JSON.stringify(csvImageUrls.sort())
ImagesChangedInOrder(existingImageUrls, csvImageUrls) ==
    existingImageUrls # csvImageUrls
ImagesChanged(existingImageUrls, csvImageUrls) ==
    SortUrls(existingImageUrls) # SortUrls(csvImageUrls)

\* The names doesProductNeedUpdate pushes, in the order of its tests.
ChangeNames ==
    <<"title", "description", "product_type", "tags", "status", "category",
      "price", "compare_price", "inventory", "sku", "barcode", "weight",
      "images">>

VariantChanges ==
    {"price", "compare_price", "inventory", "sku", "barcode", "weight"}

\* The test that guards changes.push(name).
Changed(name, csvProductData, existingProduct) ==
    LET hasVariant      == Len(existingProduct.variants) > 0
        existingVariant == existingProduct.variants[1]
        csvVariant      == csvProductData.variants[1]
    IN  CASE name = "title" ->
               csvProductData.title # existingProduct.title
          [] name = "description" ->
               csvProductData.body_html # existingProduct.body_html
          [] name = "product_type" ->
               csvProductData.product_type # existingProduct.product_type
          [] name = "tags" ->
               csvProductData.tags # existingProduct.tags
          [] name = "status" ->
               csvProductData.status # existingProduct.status
          [] name = "category" ->
               /\ Truthy(csvProductData.product_category_id)
               /\ csvProductData.product_category_id
                      # existingProduct.product_category_id
          [] name = "price" ->
               hasVariant /\ PriceChanged(csvVariant.price,
                                          existingVariant.price)
          [] name = "compare_price" ->
               /\ hasVariant
               /\ Truthy(csvVariant.compare_at_price)
               /\ NumbersDiffer(
                      parseFloat(csvVariant.compare_at_price),
                      IF Truthy(existingVariant.compare_at_price)
                        THEN parseFloat(existingVariant.compare_at_price)
                        ELSE 0)
          [] name = "inventory" ->
               \* parseInt of a whole number is that number
               hasVariant /\ NumbersDiffer(csvVariant.inventory_quantity,
                                 existingVariant.inventory_quantity)
          [] name = "sku" ->
               hasVariant /\ csvVariant.sku # existingVariant.sku
          [] name = "barcode" ->
               hasVariant /\ csvVariant.barcode # existingVariant.barcode
          [] name = "weight" ->
               hasVariant /\ csvVariant.weight # existingVariant.weight
          [] name = "images" ->
               ImagesChanged(existingProduct.images, csvProductData.images)

doesProductNeedUpdate(csvItem, existingProduct) ==
    LET csvProductData == mapCSVToShopifyProduct(csvItem)
        changes == SelectSeq(ChangeNames,
                       LAMBDA name :
                           Changed(name, csvProductData, existingProduct))
    IN  [hasChanges |-> Len(changes) > 0, changes |-> changes]

\* obj[key] = value
Put(obj, key, value) ==
    [k \in DOMAIN obj \cup {key} |-> IF k = key THEN value ELSE obj[k]]

\* The property of a variant that a variant-level change names.
VariantProperty(change) ==
    CASE change = "price"         -> "price"
      [] change = "compare_price" -> "compare_at_price"
      [] change = "inventory"     -> "inventory_quantity"
      [] OTHER                    -> change

\* One round of buildUpdateData's changes.forEach.
ApplyChange(updateData, change, csvProductData, existingProduct) ==
    CASE change = "title" ->
           Put(updateData, "title", csvProductData.title)
      [] change = "description" ->
           Put(updateData, "body_html", csvProductData.body_html)
      [] change = "product_type" ->
           Put(updateData, "product_type", csvProductData.product_type)
      [] change = "tags" ->
           Put(updateData, "tags", csvProductData.tags)
      [] change = "status" ->
           Put(updateData, "status", csvProductData.status)
      [] change = "category" ->
           Put(updateData, "product_category_id",
               csvProductData.product_category_id)
      [] change = "images" ->
           Put(updateData, "images", csvProductData.images)
      [] change \in VariantChanges ->
           IF Len(existingProduct.variants) > 0
             THEN LET csvVariant == csvProductData.variants[1]
                      variantUpdate ==
                          Put([id |-> existingProduct.variants[1].id],
                              VariantProperty(change),
                              csvVariant[VariantProperty(change)])
                  IN  Put(updateData, "variants", <<variantUpdate>>)
             ELSE IF "variants" \in DOMAIN updateData THEN updateData
             ELSE Put(updateData, "variants", <<>>)
      [] OTHER -> updateData

RECURSIVE ApplyChanges(_, _, _, _, _)
ApplyChanges(updateData, changes, n, csvProductData, existingProduct) ==
    IF n > Len(changes) THEN updateData
    ELSE ApplyChanges(
             ApplyChange(updateData, changes[n], csvProductData,
                         existingProduct),
             changes, n + 1, csvProductData, existingProduct)

buildUpdateData(csvProductData, existingProduct, changes) ==
    ApplyChanges([id |-> existingProduct.id], changes, 1, csvProductData,
                 existingProduct)

(***************************************************************************)
(* ShopifyClient: matching and classification                              *)
(***************************************************************************)
\* Map.set in a forEach over the snapshot: of the products with the key,
\* the last one is the one the map holds.
LastIsFirst(positions) ==
    CHOOSE n \in positions : \A k \in positions : n <= k
Last(positions) == CHOOSE n \in positions : \A k \in positions : k <= n

\* The lowercased SKUs of a product's variants.
SkuKeys(product) ==
    {toLowerCase(product.variants[v].sku) :
        v \in {w \in 1..Len(product.variants) :
                  Truthy(product.variants[w].sku)}}

\* const existingProductsBySku = new Map()
existingProductsBySku(products) ==
    [key \in UNION {SkuKeys(products[n]) : n \in 1..Len(products)} |->
        products[Last({n \in 1..Len(products) :
                          key \in SkuKeys(products[n])})]]

\* const existingProductsByTitle = new Map()
existingProductsByTitle(products) ==
    [key \in {toLowerCase(products[n].title) : n \in 1..Len(products)} |->
        products[Last({n \in 1..Len(products) :
                          toLowerCase(products[n].title) = key})]]

\* The lookup of categorizeProducts: by SKU first, then by title.
FindExistingTitleFirst(csvItem, bySku, byTitle) ==
    LET sku   == toLowerCase(csvItem.Item)
        title == toLowerCase(OrElse(csvItem.Description,
                                    OrElse(csvItem.Item, "")))
    IN  IF Truthy(title) /\ title \in DOMAIN byTitle THEN byTitle[title]
        ELSE IF Truthy(sku) /\ sku \in DOMAIN bySku THEN bySku[sku]
        ELSE NoProduct
FindExisting(csvItem, bySku, byTitle) ==
    LET sku   == toLowerCase(csvItem.Item)
        title == toLowerCase(OrElse(csvItem.Description,
                                    OrElse(csvItem.Item, "")))
    IN  IF Truthy(sku) /\ sku \in DOMAIN bySku THEN bySku[sku]
        ELSE IF Truthy(title) /\ title \in DOMAIN byTitle THEN byTitle[title]
        ELSE NoProduct

\* The branch that pushes to productsToCreate.
CreateBranchAlways(existingProduct) == TRUE
CreateBranch(existingProduct) == existingProduct = NoProduct

\* The branch that pushes to productsToUpdate.
UpdateBranch(csvItem, existingProduct, enableUpdates) ==
    /\ existingProduct # NoProduct
    /\ enableUpdates
    /\ doesProductNeedUpdate(csvItem, existingProduct).hasChanges

\* An item holds the feed record it was made from (ref: the position of
\* that record in csvData, standing for the identity of the object).
categorizeProductsSeesCreates(feed, bySku, byTitle, enableUpdates) ==
    LET refs     == [n \in 1..Len(feed) |-> n]
        found(n) == FindExisting(feed[n], bySku, byTitle)
        seen(n)  == \E m \in 1..(n - 1) :
                        /\ found(m) = NoProduct
                        /\ Truthy(feed[m].Item) /\ feed[m].Item = feed[n].Item
        creates  == SelectSeq(refs, LAMBDA n :
                        CreateBranch(found(n)) /\ ~seen(n))
        updates  == SelectSeq(refs, LAMBDA n :
                        UpdateBranch(feed[n], found(n), enableUpdates))
    IN  [ productsToCreate |->
              [k \in 1..Len(creates) |->
                  [ref |-> creates[k], csvItem |-> feed[creates[k]]]],
          productsToUpdate |->
              [k \in 1..Len(updates) |->
                  [ref |-> updates[k], csvItem |-> feed[updates[k]],
                   existingProduct |-> found(updates[k]),
                   changes |-> doesProductNeedUpdate(
                                   feed[updates[k]],
                                   found(updates[k])).changes]] ]
categorizeProducts(feed, bySku, byTitle, enableUpdates) ==
    LET refs     == [n \in 1..Len(feed) |-> n]
        found(n) == FindExisting(feed[n], bySku, byTitle)
        creates  == SelectSeq(refs, LAMBDA n : CreateBranch(found(n)))
        updates  == SelectSeq(refs, LAMBDA n :
                        UpdateBranch(feed[n], found(n), enableUpdates))
    IN  [ productsToCreate |->
              [k \in 1..Len(creates) |->
                  [ref |-> creates[k], csvItem |-> feed[creates[k]]]],
          productsToUpdate |->
              [k \in 1..Len(updates) |->
                  [ref |-> updates[k], csvItem |-> feed[updates[k]],
                   existingProduct |-> found(updates[k]),
                   changes |-> doesProductNeedUpdate(
                                   feed[updates[k]],
                                   found(updates[k])).changes]] ]

(***************************************************************************)
(* ShopifyClient: the inputs of a processProductsFromCSV call              *)
(***************************************************************************)
\* A feed record with every column filled, or with the optional ones empty.
CsvItem(item, description, full) ==
    [ Item           |-> item,
      Description    |-> description,
      Status         |-> IF full THEN "Active" ELSE "",
      MSRP           |-> IF full THEN "12.5" ELSE "",
      ContractPrice  |-> IF full THEN "" ELSE "$10.00",
      Qty_Avail      |-> IF full THEN "5" ELSE "",
      UPC            |-> IF full THEN "111" ELSE "",
      Weight         |-> IF full THEN "2" ELSE "",
      Metal_Desc     |-> IF full THEN "Gold" ELSE "",
      Categories     |-> IF full THEN "Rings" ELSE "",
      ImageLink_1000 |-> IF full THEN "b.jpg" ELSE "",
      Image1Link     |-> IF full THEN "a.jpg" ELSE "" ]

CsvItems ==
    {CsvItem(item, description, full) :
        item \in {"Q1", ""}, description \in {"Gold Ring", ""},
        full \in BOOLEAN}

\* The same price written the way another formatter writes it.
Reformat(price) ==
    CASE price = "10.00" -> "10.0"
      [] price = "12.50" -> "12.5"
      [] price = "0.00"  -> "0"
      [] OTHER           -> price

\* A price of another value.
OtherPrice(price) == IF parseFloat(price) = 1000 THEN "12.50" ELSE "10.00"

Reverse(s) == [k \in 1..Len(s) |-> s[Len(s) + 1 - k]]

\* A product of the store that holds what feed record csvItem maps to,
\* except in the fields named in differs; reformat writes its prices
\* differently, reverse lists its images in the opposite order.
ExistingLike(csvItem, id, differs, reformat, reverse) ==
    LET m      == mapCSVToShopifyProduct(csvItem)
        v      == m.variants[1]
        fmt(p) == IF reformat THEN Reformat(p) ELSE p
        images == IF "images" \in differs THEN Append(m.images, "c.jpg")
                  ELSE m.images
    IN  [ id           |-> id,
          title        |-> IF "title" \in differs THEN "Silver Ring"
                           ELSE m.title,
          body_html    |-> IF "description" \in differs THEN <<"p", "old">>
                           ELSE m.body_html,
          product_type |-> IF "product_type" \in differs THEN "Watches"
                           ELSE m.product_type,
          tags         |-> IF "tags" \in differs THEN "sale" ELSE m.tags,
          status       |-> IF "status" \in differs
                             THEN (IF m.status = "active" THEN "draft"
                                   ELSE "active")
                           ELSE m.status,
          product_category_id |-> IF "category" \in differs THEN "gid-1"
                                  ELSE null,
          variants     |->
              << [ id       |-> 10 + id,
                   sku      |-> IF "sku" \in differs THEN "Z9" ELSE v.sku,
                   barcode  |-> IF "barcode" \in differs THEN "999"
                                ELSE v.barcode,
                   price    |-> fmt(IF "price" \in differs
                                      THEN OtherPrice(v.price) ELSE v.price),
                   compare_at_price |->
                       IF "compare_price" \in differs
                         THEN fmt(OtherPrice(OrElse(v.compare_at_price,
                                                    "0.00")))
                       ELSE IF v.compare_at_price = null THEN null
                       ELSE fmt(v.compare_at_price),
                   inventory_quantity |->
                       v.inventory_quantity
                           + (IF "inventory" \in differs THEN 2 ELSE 0),
                   weight   |-> v.weight
                                + (IF "weight" \in differs THEN 1 ELSE 0) ] >>,
          images       |-> IF reverse THEN Reverse(images) ELSE images ]

\* The products like csvItem that differ from it in at most MaxDiffs
\* fields, each as the feed spells it and respelled (prices reformatted,
\* images reversed), those of them that have no variant, and the one that
\* holds null where the feed record has no tags or no barcode.
Variations(csvItem) ==
    LET names   == {ChangeNames[n] : n \in 1..Len(ChangeNames)}
        subsets == {d \in SUBSET names : Cardinality(d) <= MaxDiffs}
        full    == {ExistingLike(csvItem, 1, d, respelled, respelled) :
                       d \in subsets, respelled \in BOOLEAN}
        bare    == {[ExistingLike(csvItem, 1, d, FALSE, respelled)
                         EXCEPT !.variants = <<>>] :
                       d \in {s \in subsets : s \cap VariantChanges = {}},
                       respelled \in BOOLEAN}
        like    == ExistingLike(csvItem, 1, {}, FALSE, FALSE)
        absent(v) == IF v = "" THEN null ELSE v
        sparse  == [like EXCEPT
                       !.tags = absent(like.tags),
                       !.variants[1].barcode =
                           absent(like.variants[1].barcode)]
    IN  full \cup bare \cup {sparse}

\* Another product of the store, with a title and a SKU of its own that
\* may collide with those of csvItem in another letter case.
Decoys(csvItem) ==
    {[ExistingLike(csvItem, 2, {}, FALSE, FALSE)
          EXCEPT !.title = title, !.variants[1].sku = sku] :
        title \in {"GOLD RING", "Silver Ring"}, sku \in {"q1", "Z9"}}

\* The snapshots the record is reconciled against.
Snapshots(csvItem) ==
    {<<>>}
    \cup {<<p>> : p \in Variations(csvItem)}
    \cup {<<p, q>> : p \in Variations(csvItem), q \in Decoys(csvItem)}
    \cup {<<q, p>> : p \in Variations(csvItem), q \in Decoys(csvItem)}

\* The options processProductsFromCSV defaults to.
DefaultOptions ==
    [batchSize |-> 10, dryRun |-> FALSE, parallelBatch |-> TRUE,
     enableUpdates |-> TRUE]

NoResults ==
    [created |-> 0, updated |-> 0, skipped |-> 0, errors |-> 0,
     errorDetails |-> <<>>]

\* No call of processProductsFromCSV has been made.
NoCall == "none"

\* A call of processProductsFromCSV that has not run yet: its arguments
\* (csvData, existingProducts, options), its position ppc, and its locals:
\*   productsToCreate, productsToUpdate   categorizeProducts' two lists
\*   patches    the updateData built for each update item
\*   offset     let i, the offset of the current batch
\*   cursor     the position in the batch (sequential processing)
\*   status     what became of each item to process
\*   results    const results
\*   batches    the batches sliced so far (ghost)
\*   requests   the create / update calls sent so far (ghost)
\*   delays     the delays between batches begun so far (ghost)
Call(feed, products, opts) ==
    [ csvData |-> feed, existingProducts |-> products, options |-> opts,
      ppc |-> "idle", productsToCreate |-> <<>>, productsToUpdate |-> <<>>,
      patches |-> <<>>, offset |-> 0, cursor |-> 0, status |-> <<>>,
      results |-> NoResults, batches |-> <<>>, requests |-> <<>>,
      delays |-> 0 ]

ShopInit == shop = NoCall

\* The matching and classification of processProductsFromCSV, and the
\* patch processUpdateItem builds for each update item.
Reconcile ==
    /\ shop.ppc = "idle"
    /\ LET lists == categorizeProducts(
                        shop.csvData,
                        existingProductsBySku(shop.existingProducts),
                        existingProductsByTitle(shop.existingProducts),
                        shop.options.enableUpdates)
       IN  shop' = [shop EXCEPT
               !.ppc = "reconciled",
               !.productsToCreate = lists.productsToCreate,
               !.productsToUpdate = lists.productsToUpdate,
               !.patches =
                   [k \in 1..Len(lists.productsToUpdate) |->
                       LET item == lists.productsToUpdate[k]
                       IN  buildUpdateData(
                               mapCSVToShopifyProduct(item.csvItem),
                               item.existingProduct, item.changes)]]
    /\ UNCHANGED shopFrame

(***************************************************************************)
(* ShopifyClient: processProductsFromCSV and the batch processors          *)
(*                                                                         *)
(* ppc names what the call awaits:                                         *)
(*   idle       not called yet                                             *)
(*   parallel   processBatchParallelWithUpdates awaits Promise.allSettled  *)
(*   item       processBatchSequentialWithUpdates awaits an item           *)
(*   itemDelay  processBatchSequentialWithUpdates awaits this.delay(100)   *)
(*   sequential processProductsFromCSV awaits the sequential processor,    *)
(*              which had no item to process                               *)
(*   delay      processProductsFromCSV awaits this.delay(delayBetween...)  *)
(*   returned   processProductsFromCSV has returned results                *)
(* status[k] is "waiting" until item k of allProductsToProcess is handed   *)
(* to processCreateItem / processUpdateItem, then "pending" until that     *)
(* call settles, then "fulfilled" or "failed".                             *)
(***************************************************************************)
\* const allProductsToProcess = [...]: items are named by their position.
allProductsToProcess(creates, updates) ==
    [k \in 1..(Len(creates) + Len(updates)) |->
        IF k <= Len(creates)
          THEN [action |-> "create", ref |-> creates[k].ref,
                csvItem |-> creates[k].csvItem]
          ELSE [action |-> "update", ref |-> updates[k - Len(creates)].ref,
                csvItem |-> updates[k - Len(creates)].csvItem]]

\* allProductsToProcess.slice(i, i + batchSize), as positions: a negative
\* index counts from the end, and an index outside the list is clamped.
Slice(all, from, batchSize) ==
    LET relative(n) == IF n < 0
                         THEN (IF Len(all) + n < 0 THEN 0 ELSE Len(all) + n)
                       ELSE IF n < Len(all) THEN n
                       ELSE Len(all)
        start == relative(from)
        to    == relative(from + batchSize)
    IN  [k \in 1..(to - start) |-> start + k]

\* i += batchSize.  An offset below -MaxRounds stands for every offset
\* below it: the list is shorter than that, so the slice there is empty.
NextOffsetSkips(from, batchSize) == from + batchSize + 1
NextOffset(from, batchSize) ==
    IF from + batchSize < 0 - MaxRounds THEN from ELSE from + batchSize

\* The try / catch around each item: an item's error is caught and counted.
ItemErrorCaughtOff == FALSE
ItemErrorCaught == TRUE

\* The call createProduct / updateProduct sends for item k.
Request(all, k) == [action |-> all[k].action, ref |-> all[k].ref]

\* The type of the value processCreateItem / processUpdateItem resolve with.
ResultType(action, dryRun) ==
    IF action = "create"
      THEN IF dryRun THEN "dry-run-create" ELSE "created"
      ELSE IF dryRun THEN "dry-run-update" ELSE "updated"

\* results after an item settled: a fulfilled item counts by the type of
\* its value ('created' / 'updated'; a dry run's 'dry-run-create' and
\* 'dry-run-update' count as neither), a failed one as an error.
Counted(res, item, outcome) ==
    IF outcome = "failed"
      THEN [res EXCEPT !.errors = @ + 1,
                       !.errorDetails = Append(@,
                           [csvItem |-> OrElse(item.csvItem.Item, "Unknown"),
                            error   |-> "message"])]
    ELSE LET type == ResultType(item.action, shop.options.dryRun)
         IN  IF type = "created" THEN [res EXCEPT !.created = @ + 1]
             ELSE IF type = "updated" THEN [res EXCEPT !.updated = @ + 1]
             ELSE res

\* batchResults.forEach of processBatchParallelWithUpdates.
RECURSIVE CountedAll(_, _, _, _, _)
CountedAll(res, all, batch, st, n) ==
    IF n > Len(batch) THEN res
    ELSE CountedAll(Counted(res, all[batch[n]], st[batch[n]]),
                    all, batch, st, n + 1)

\* The sequential processor hands the item at c.cursor to its processor:
\* a request is sent unless this is a dry run.
IssueItemAlwaysSends(c, all) ==
    LET k == c.offset + c.cursor
    IN  [c EXCEPT !.ppc = "item",
                  !.status[k] = "pending",
                  !.requests = Append(@, Request(all, k))]
IssueItem(c, all) ==
    LET k == c.offset + c.cursor
    IN  [c EXCEPT !.ppc = "item",
                  !.status[k] = "pending",
                  !.requests = IF shop.options.dryRun THEN @
                               ELSE Append(@, Request(all, k))]

\* The for loop of processProductsFromCSV tests i < length with i = c.offset
\* and, if it holds, slices the batch and calls its processor, which runs up
\* to its first await.
LoopTest(c, all) ==
    IF c.offset >= Len(all) THEN [c EXCEPT !.ppc = "returned"]
    ELSE LET batch == Slice(all, c.offset, shop.options.batchSize)
             \* the history keeps the last MaxRounds batches apart
             c1    == [c EXCEPT !.batches =
                          IF Len(@) < MaxRounds THEN Append(@, batch)
                          ELSE [@ EXCEPT ![Len(@)] = batch]]
         IN  IF shop.options.parallelBatch /\ ~shop.options.dryRun
               THEN [c1 EXCEPT
                       !.ppc = "parallel",
                       !.status = [k \in DOMAIN @ |->
                                      IF \E n \in DOMAIN batch : batch[n] = k
                                        THEN "pending" ELSE @[k]],
                       !.requests = @ \o [n \in DOMAIN batch |->
                                             Request(all, batch[n])]]
             ELSE IF batch = <<>>
               THEN [c1 EXCEPT !.ppc = "sequential", !.cursor = 0]
               ELSE IssueItem([c1 EXCEPT !.cursor = 1], all)

\* A batch processor has returned: the delay between batches, or the next
\* round of the loop.
AfterBatchAlwaysDelays(c, all) ==
    [c EXCEPT !.ppc = "delay", !.cursor = 0,
                       !.delays = IF @ < MaxRounds THEN @ + 1 ELSE @]
AfterBatch(c, all) ==
    IF c.offset + shop.options.batchSize < Len(all)
      THEN [c EXCEPT !.ppc = "delay", !.cursor = 0,
                       !.delays = IF @ < MaxRounds THEN @ + 1 ELSE @]
      ELSE LoopTest([c EXCEPT !.cursor = 0,
                              !.offset = NextOffset(@, shop.options.batchSize)],
                    all)

\* The for...of loop of the sequential processor moves to position n.
NextItemRetriesFailed(c, all, n) ==
    IF /\ n > 1 /\ c.status[c.offset + n - 1] = "failed"
       /\ Len(c.requests) <= Len(all)
      THEN IssueItem([c EXCEPT !.cursor = n - 1], all)
    ELSE IF n > Len(Slice(all, c.offset, shop.options.batchSize))
      THEN AfterBatch(c, all)
      ELSE IssueItem([c EXCEPT !.cursor = n], all)
NextItem(c, all, n) ==
    IF n > Len(Slice(all, c.offset, shop.options.batchSize))
      THEN AfterBatch(c, all)
      ELSE IssueItem([c EXCEPT !.cursor = n], all)

\* processProductsFromCSV is called: everything up to its first await.
Start ==
    /\ shop.ppc = "idle"
    /\ \E lists \in {categorizeProducts(
                         shop.csvData,
                         existingProductsBySku(shop.existingProducts),
                         existingProductsByTitle(shop.existingProducts),
                         shop.options.enableUpdates)} :
       \E all \in {allProductsToProcess(lists.productsToCreate,
                                        lists.productsToUpdate)} :
           shop' = LoopTest(
                       [shop EXCEPT
                           !.productsToCreate = lists.productsToCreate,
                           !.productsToUpdate = lists.productsToUpdate,
                           !.status = [k \in 1..Len(all) |-> "waiting"],
                           !.results = NoResults],
                       all)
    /\ UNCHANGED shopFrame

\* The items to process of the call in progress.
All == allProductsToProcess(shop.productsToCreate, shop.productsToUpdate)

\* Parallel processing: the call for item k settles.  The item's async
\* function catches an error and resolves with {success: false, ...}.
ItemSettles(k) ==
    /\ shop.ppc = "parallel"
    /\ k \in DOMAIN shop.status /\ shop.status[k] = "pending"
    /\ \E ok \in BOOLEAN :
         shop' = [shop EXCEPT
                     !.status[k] = IF ok THEN "fulfilled" ELSE "failed"]
    /\ UNCHANGED shopFrame

\* Parallel processing: Promise.allSettled resolves, the results are
\* counted, and processProductsFromCSV goes on.
BatchSettles ==
    /\ shop.ppc = "parallel"
    /\ \A k \in DOMAIN shop.status : shop.status[k] # "pending"
    /\ LET batch == shop.batches[Len(shop.batches)]
           res   == CountedAll(shop.results, All, batch, shop.status, 1)
       IN  shop' = AfterBatch([shop EXCEPT !.results = res], All)
    /\ UNCHANGED shopFrame

\* Sequential processing: the awaited item settles.  Fulfilled, it is
\* counted and the 100 ms delay is awaited; rejected, the catch block counts
\* the error and the loop moves on at once.  A dry run sends nothing, so
\* nothing fails.
SeqItemSettles ==
    /\ shop.ppc = "item"
    /\ \E ok \in (IF shop.options.dryRun THEN {TRUE} ELSE BOOLEAN) :
         LET k   == shop.offset + shop.cursor
             out == IF ok THEN "fulfilled" ELSE "failed"
             c   == [shop EXCEPT !.status[k] = out,
                                 !.results = Counted(@, All[k], out)]
         IN  shop' = IF ok THEN [c EXCEPT !.ppc = "itemDelay"]
                     ELSE IF ItemErrorCaught THEN NextItem(c, All, shop.cursor + 1)
                     ELSE [c EXCEPT !.ppc = "threw", !.results = shop.results]
    /\ UNCHANGED shopFrame

\* Sequential processing: the delay after a fulfilled item is over.
ItemDelaySettles ==
    /\ shop.ppc = "itemDelay"
    /\ shop' = NextItem(shop, All, shop.cursor + 1)
    /\ UNCHANGED shopFrame

\* Sequential processing of a batch without items: the processor returned
\* without awaiting anything, and processProductsFromCSV goes on.
BatchReturns ==
    /\ shop.ppc = "sequential"
    /\ shop' = AfterBatch(shop, All)
    /\ UNCHANGED shopFrame

\* The delay between two batches is over: i += batchSize, and the loop test.
DelaySettles ==
    /\ shop.ppc = "delay"
    /\ shop' = LoopTest(
                   [shop EXCEPT !.offset = NextOffset(@, shop.options.batchSize)],
                   All)
    /\ UNCHANGED shopFrame

ProcessNext ==
    \/ Start
    \/ \E k \in 1..MaxFeed : ItemSettles(k)
    \/ BatchSettles
    \/ SeqItemSettles
    \/ ItemDelaySettles
    \/ DelaySettles

\* The feed records of a run: one that equals the product of the store, one
\* that differs from it in the quantity, one the store does not have.
FeedRecords ==
    { CsvItem("Q1", "Gold Ring", TRUE),
      [CsvItem("Q1", "Gold Ring", TRUE) EXCEPT !.Qty_Avail = "7"],
      CsvItem("Z9", "Silver Ring", FALSE) }

Feeds == UNION {[1..n -> FeedRecords] : n \in 0..MaxFeed}

\* An empty store, a store that holds the first feed record's product,
\* and one that also holds a product with the third record's title under
\* another SKU.
StoreSnapshots ==
    LET first == ExistingLike(CsvItem("Q1", "Gold Ring", TRUE), 1, {},
                              FALSE, FALSE)
        third == ExistingLike(CsvItem("Z9", "Silver Ring", FALSE), 2,
                              {"sku"}, FALSE, FALSE)
    IN  {<<>>, <<first>>, <<first, third>>}

OptionSets ==
    [batchSize : 1..MaxBatchSize, dryRun : BOOLEAN, parallelBatch : BOOLEAN,
     enableUpdates : BOOLEAN]

\* const processOptions = {...} of executeJob, from the environment.
processOptions(env) ==
    [batchSize     |-> NumOrElse(parseInt(env.SHOPIFY_BATCH_SIZE), 10),
     dryRun        |-> env.SHOPIFY_DRY_RUN = "true",
     parallelBatch |-> env.SHOPIFY_PARALLEL_BATCH # "false",
     enableUpdates |-> env.SHOPIFY_ENABLE_UPDATES # "false"]

\* The settings of the environment that the options are read from.
Environments ==
    [SHOPIFY_BATCH_SIZE     : {undefined, "abc", "0", "2", "-2"},
     SHOPIFY_DRY_RUN        : {undefined, "true"},
     SHOPIFY_PARALLEL_BATCH : {undefined, "false"},
     SHOPIFY_ENABLE_UPDATES : {undefined}]

DispatchNext == ProcessNext \/ BatchReturns

(***************************************************************************)
(* ProductDataCronJob.cleanupOldFiles (src/unnamed/part_001)               *)
(*                                                                         *)
(* Times are in days.  An entry of the download directory is a regular     *)
(* file, a directory, or a link whose target is gone ("broken": statSync   *)
(* throws); unlinkSync throws for a locked file.                           *)
(***************************************************************************)
MaxEntries == 2

\* Date.now()
Now == 8

\* this.keepFilesDays = parseInt(process.env.KEEP_FILES_DAYS) || 7
keepFilesDays(env) == NumOrElse(parseInt(env), 7)

\* const cutoffTime = Date.now() - (this.keepFilesDays * 24 * 60 * 60 * 1000)
cutoffTime(env) == Now - keepFilesDays(env)

\* The entries a directory can hold.
DirEntries ==
    [kind : {"file"}, mtime : {0, 1, 2, 3, Now}, locked : BOOLEAN]
        \cup [kind : {"dir"}, mtime : {0}, locked : {FALSE}]
        \cup [kind : {"broken"}, mtime : {0}, locked : {FALSE}]

\* What fs.readdirSync returns.
Directories == UNION {[1..n -> DirEntries] : n \in 0..MaxEntries}

\* stats.isFile() && stats.mtime.getTime() < cutoffTime
IsOld(entry, env) == entry.kind = "file" /\ entry.mtime < cutoffTime(env)

\* The for...of loop from entry n on: the positions deleted, and whether
\* statSync or unlinkSync threw.
RECURSIVE Sweep(_, _, _, _)
Sweep(files, env, n, deleted) ==
    IF n > Len(files) THEN [deleted |-> deleted, error |-> FALSE]
    ELSE IF files[n].kind = "broken"
      THEN [deleted |-> deleted, error |-> TRUE]
    ELSE IF IsOld(files[n], env)
      THEN IF files[n].locked
             THEN [deleted |-> deleted, error |-> TRUE]
             ELSE Sweep(files, env, n + 1, deleted \cup {n})
    ELSE Sweep(files, env, n + 1, deleted)

NoCleanup == "none"

CleanupInit == cleanup = NoCleanup

\* cleanupOldFiles is called and returns: its catch block logs the error.
CleanupOldFiles ==
    /\ cleanup.cpc = "idle"
    /\ LET swept == Sweep(cleanup.files, cleanup.env, 1, {})
       IN  cleanup' = [cleanup EXCEPT !.cpc = "returned",
                                      !.deleted = swept.deleted,
                                      !.error = swept.error]
    /\ UNCHANGED cleanupFrame

(***************************************************************************)
(* ShopifyClient.doesProductNeedUpdate: the variant tests on values of     *)
(* either representation (src/src/ftpClient.js)                            *)
(*                                                                         *)
(* The store may hold a numeric field as a number or as a numeric string.  *)
(* Here a value is [type, num, str]: a number holds num (prices in         *)
(* hundredths, quantities and grams whole), a string holds str, null holds *)
(* neither; two values are === when they are the same record.              *)
(***************************************************************************)
Js(type, num, str) == [type |-> type, num |-> num, str |-> str]

\* The test that guards changes.push(name) for a variant-level name.
VariantChanged(name, csvVariant, existingVariant) ==
    LET truthy(v) == CASE v.type = "number" -> v.num \notin {0, NaN}
                       [] v.type = "string" -> v.str # ""
                       [] OTHER             -> FALSE
        orZero(v) == IF truthy(v) THEN v ELSE Js("number", 0, "")
        float(v)  == CASE v.type = "number" -> v.num
                       [] v.type = "string" -> parseFloat(v.str)
                       [] OTHER             -> NaN
        int(v)    == CASE v.type = "number" -> v.num
                       [] v.type = "string" -> parseInt(v.str)
                       [] OTHER             -> NaN
    IN  CASE name = "price" ->
               NumbersDiffer(float(csvVariant.price),
                             float(existingVariant.price))
          [] name = "compare_price" ->
               /\ truthy(csvVariant.compare_price)
               /\ NumbersDiffer(float(csvVariant.compare_price),
                                float(orZero(existingVariant.compare_price)))
          [] name = "inventory" ->
               NumbersDiffer(int(csvVariant.inventory),
                             int(orZero(existingVariant.inventory)))
          [] OTHER ->
               csvVariant[name] # existingVariant[name]

\* The first variant of the product a feed record maps to, each field
\* under the name the comparator reports it by.
CsvVariant(csvItem) ==
    LET v == createVariant(csvItem)
    IN  [ price         |-> Js("string", 0, v.price),
          compare_price |-> IF v.compare_at_price = null
                              THEN Js("null", 0, "")
                              ELSE Js("string", 0, v.compare_at_price),
          inventory     |-> Js("number", v.inventory_quantity, ""),
          sku           |-> Js("string", 0, v.sku),
          barcode       |-> Js("string", 0, v.barcode),
          weight        |-> Js("number", v.weight, "") ]

\* What the store may hold in a numeric field of a variant.
StoredValues(name) ==
    {Js("null", 0, "")}
    \cup (CASE name \in {"price", "compare_price"} ->
                 {Js("string", 0, s) :
                     s \in {"10", "10.0", "10.00", "12.5", "12.50", "0",
                            "0.00"}}
                 \cup {Js("number", n, "") : n \in {0, 1000, 1250}}
            [] name = "inventory" ->
                 {Js("string", 0, s) : s \in {"0", "5", "7"}}
                 \cup {Js("number", n, "") : n \in {0, 5, 7}}
            [] name = "weight" ->
                 {Js("string", 0, s) : s \in {"0", "57"}}
                 \cup {Js("number", n, "") : n \in {0, 57}})

\* doesProductNeedUpdate, lines 923-950, for the variant-level names.
CompareVariants ==
    /\ shop.ppc = "compare"
    /\ shop' = [shop EXCEPT
           !.ppc = "compared",
           !.changes = {name \in VariantChanges :
                           VariantChanged(name, shop.csvVariant,
                                          shop.existingVariant)}]
    /\ UNCHANGED shopFrame

(***************************************************************************)
(* ShopifyClient.generateHandle (src/src/ftpClient.js)                     *)
(*                                                                         *)
(* A title is a sequence of characters: "a" and "A" stand for the letters  *)
(* and digits, " " for white space, "!" for every other character.         *)
(***************************************************************************)
HandleLimit == 100

generateHandle(title) ==
    LET lower(s)   == [k \in 1..Len(s) |-> IF s[k] = "A" THEN "a" ELSE s[k]]
        kept(c)    == c \in {"a", "c", "d", "o", "p", "r", "t", "u", " ", "-"}
        \* s without the characters at the positions outside keep
        only(s, keep) ==
            [j \in 1..Cardinality(keep) |->
                s[CHOOSE k \in keep :
                      Cardinality({i \in keep : i <= k}) = j]]
        strip(s)   == only(s, {k \in 1..Len(s) : kept(s[k])})
        \* every run of c replaced by one hyphen
        runs(s, c) ==
            LET one == only(s, {k \in 1..Len(s) :
                                   s[k] # c \/ k = 1 \/ s[k - 1] # c})
            IN  [k \in 1..Len(one) |-> IF one[k] = c THEN "-" ELSE one[k]]
        trim(s)    ==
            LET first == IF s # <<>> /\ s[1] = "-" THEN 2 ELSE 1
                last  == IF Len(s) >= first /\ s[Len(s)] = "-"
                           THEN Len(s) - 1 ELSE Len(s)
            IN  SubSeq(s, first, last)
        substring(s) ==
            SubSeq(s, 1, IF Len(s) < HandleLimit THEN Len(s) ELSE HandleLimit)
    IN  IF title = <<>> THEN <<"p", "r", "o", "d", "u", "c", "t">>
        ELSE substring(trim(runs(runs(strip(lower(title)), " "), "-")))

\* The titles: every short one, and those that follow a long run of
\* letters with a short one.
Titles ==
    LET short == UNION {[1..n -> {"a", "A", " ", "-", "!"}] : n \in 0..MaxTitle}
        long  == {[k \in 1..n |-> "a"] : n \in {HandleLimit - 2, HandleLimit}}
    IN  short \cup {l \o s : l \in long, s \in short}

\* generateHandle applied to the title, then to the handle it returned.
GenerateHandle ==
    /\ shop.ppc = "handle"
    /\ Len(shop.handles) < MaxApplications
    /\ shop' = [shop EXCEPT !.handles =
                   Append(@, generateHandle(IF @ = <<>> THEN shop.title
                                            ELSE @[Len(@)]))]
    /\ UNCHANGED shopFrame

(***************************************************************************)
(* ContainerManager (src/unnamed/part_000)                                 *)
(*                                                                         *)
(* The entry process of the container and its two children.  phase is      *)
(* "new" (constructed), "health" (start() awaits startHealthServer),       *)
(* "running" (both children spawned, signal handlers installed) or         *)
(* "exited" (process.exit was called: no callback runs any more).  cron    *)
(* lists the cron children in the order they were spawned, each "alive" or *)
(* "exited"; this.cronProcess is the last one.  restartTimers and          *)
(* graceTimers are the pending setTimeout callbacks of the 'exit' handler  *)
(* and of shutdown().  The other fields are histories: cronTerms and       *)
(* healthTerms count the SIGTERMs sent to each child, signals the signals  *)
(* and exceptions handled, shutdowns the times shutdown() got past its     *)
(* first test, fired the restart callbacks run, exits the exit codes.      *)
(***************************************************************************)
\* No container process is part of the run.
NoContainer == "none"

ContainerInit == container = NoContainer

\* start(): startHealthServer() spawns the health server and awaits 2 s.
StartContainer ==
    /\ container.phase = "new"
    /\ container' = [container EXCEPT !.phase = "health",
                                      !.health = "alive"]
    /\ UNCHANGED containerFrame

\* The 2 s are over: startCronJob() spawns the cron child and
\* setupSignalHandlers() installs the handlers.
HealthStarted ==
    /\ container.phase = "health"
    /\ container' = [container EXCEPT !.phase = "running",
                                      !.cron = Append(@, "alive"),
                                      !.cronTerms = Append(@, 0)]
    /\ UNCHANGED containerFrame

\* A cron child exits: its 'exit' handler arms the restart timer unless
\* the container is shutting down.
CronExit ==
    /\ container.phase = "running"
    /\ \E k \in 1..MaxSpawns :
         /\ k <= Len(container.cron) /\ container.cron[k] = "alive"
         /\ container' = [container EXCEPT
                !.cron[k] = "exited",
                !.restartTimers = IF container.isShuttingDown THEN @
                                  ELSE @ + 1]
    /\ UNCHANGED containerFrame

\* The restart timer fires, 5 s after the exit: startCronJob() unless the
\* container is shutting down.
RestartTimerUnchecked ==
    /\ container.phase = "running"
    /\ container.restartTimers > 0
    /\ Len(container.cron) < MaxSpawns
    /\ container' = [container EXCEPT
           !.restartTimers = @ - 1,
           !.fired = @ + 1,
           !.cron = Append(@, "alive"),
           !.cronTerms = Append(@, 0)]
    /\ UNCHANGED containerFrame
RestartTimer ==
    /\ container.phase = "running"
    /\ container.restartTimers > 0
    /\ container.isShuttingDown \/ Len(container.cron) < MaxSpawns
    /\ container' = [container EXCEPT
           !.restartTimers = @ - 1,
           !.fired = @ + 1,
           !.cron = IF container.isShuttingDown THEN @
                    ELSE Append(@, "alive"),
           !.cronTerms = IF container.isShuttingDown THEN @
                         ELSE Append(@, 0)]
    /\ UNCHANGED containerFrame

\* The health server exits: its 'exit' handler calls process.exit(1)
\* unless the container is shutting down.
HealthExit ==
    /\ container.phase \in {"health", "running"}
    /\ container.health = "alive"
    /\ container' = [container EXCEPT
           !.health = "exited",
           !.phase = IF container.isShuttingDown THEN @ ELSE "exited",
           !.exits = IF container.isShuttingDown THEN @ ELSE Append(@, 1)]
    /\ UNCHANGED containerFrame

\* SIGTERM, SIGINT, SIGUSR2, an uncaught exception or an unhandled
\* rejection arrives: the handler calls shutdown(), which returns at once
\* if isShuttingDown is set, and otherwise sets it, sends SIGTERM to
\* this.cronProcess and this.healthProcess and arms a 5 s timer for each.
\* kill() sends nothing to a child that has exited.  The handlers exist
\* from the end of start() on, which is where the model lets signals
\* arrive.
ShutdownUnguarded ==
    /\ container.phase = "running"
    /\ container.signals < MaxSignals
    /\ LET last == Len(container.cron)
       IN  container' = [container EXCEPT
               !.signals = @ + 1,
               !.isShuttingDown = TRUE,
               !.shutdowns = @ + 1,
               !.cronTerms[last] =
                   IF container.cron[last] = "alive" THEN @ + 1 ELSE @,
               !.healthTerms =
                   IF container.health = "alive" THEN @ + 1 ELSE @,
               !.graceTimers = {"cron", "health"}]
    /\ UNCHANGED containerFrame
Shutdown ==
    /\ container.phase = "running"
    /\ container.signals < MaxSignals
    /\ LET last == Len(container.cron)
       IN  container' =
               IF container.isShuttingDown
                 THEN [container EXCEPT !.signals = @ + 1]
                 ELSE [container EXCEPT
                          !.signals = @ + 1,
                          !.isShuttingDown = TRUE,
                          !.shutdowns = @ + 1,
                          !.cronTerms[last] =
                              IF container.cron[last] = "alive" THEN @ + 1
                              ELSE @,
                          !.healthTerms =
                              IF container.health = "alive" THEN @ + 1
                              ELSE @,
                          !.graceTimers = {"cron", "health"}]
    /\ UNCHANGED containerFrame

\* One of shutdown()'s 5 s timers fires and resolves its promise; when
\* both have, Promise.all resolves and the process exits with code 0.
GraceTimer ==
    /\ container.phase = "running"
    /\ \E child \in {"cron", "health"} :
         /\ child \in container.graceTimers
         /\ container' = [container EXCEPT
                !.graceTimers = @ \ {child},
                !.phase = IF container.graceTimers = {child} THEN "exited"
                          ELSE @,
                !.exits = IF container.graceTimers = {child}
                            THEN Append(@, 0) ELSE @]
    /\ UNCHANGED containerFrame

ContainerNext ==
    \/ StartContainer
    \/ HealthStarted
    \/ CronExit
    \/ RestartTimer
    \/ HealthExit
    \/ Shutdown
    \/ GraceTimer

(***************************************************************************)
(* Specifications                                                          *)
(***************************************************************************)
Init ==
    /\ JobInit /\ FetchInit /\ ListInit /\ ShopInit /\ CleanupInit
    /\ ContainerInit

Next == JobNext

Spec == Init /\ [][Next]_vars

\* Every awaited stage settles: the collaborators' promises resolve or reject.
JobProgress == \E i \in Invocations : JobStep(i) \/ JobClose(i)

FairSpec == Spec /\ WF_vars(JobProgress)

\* The download directory holds the destination file already, or not yet.
InitFetch ==
    /\ JobInit
    /\ fpc = "idle" /\ attempt = 0 /\ connected = FALSE
    /\ dest \in {NoFile, OrigFile} /\ backup = NoFile
    /\ remoteFileSize = 0 /\ error = NoError /\ result = NoResult
    /\ calls = 0 /\ epoch = 0 /\ hist = NoHist
    /\ ListInit
    /\ ShopInit /\ CleanupInit /\ ContainerInit

SpecFetch == InitFetch /\ [][FetchNext]_vars

InitLatest ==
    /\ JobInit
    /\ FetchInit
    /\ listing \in Listings
    /\ latest = NoLatest
    /\ ShopInit /\ CleanupInit /\ ContainerInit

SpecLatest == InitLatest /\ [][GetLatestCSVFile]_vars

\* One feed record reconciled against every snapshot built around it.
InitReconcile ==
    /\ JobInit /\ FetchInit /\ ListInit /\ CleanupInit /\ ContainerInit
    /\ \E csvItem \in CsvItems : \E snapshot \in Snapshots(csvItem) :
         shop = Call(<<csvItem>>, snapshot, DefaultOptions)

SpecReconcile == InitReconcile /\ [][Reconcile]_vars

\* A feed processed against a store under every combination of options.
InitProcess ==
    /\ JobInit /\ FetchInit /\ ListInit /\ CleanupInit /\ ContainerInit
    /\ \E feed \in Feeds, store \in StoreSnapshots, opts \in OptionSets :
         shop = Call(feed, store, opts)

\* cleanupOldFiles run over every bounded directory and setting.
InitCleanup ==
    /\ JobInit /\ FetchInit /\ ListInit /\ ShopInit /\ ContainerInit
    /\ \E files \in Directories, env \in {undefined, "0", "5", "7"} :
         cleanup = [cpc |-> "idle", files |-> files, env |-> env,
                    deleted |-> {}, error |-> FALSE]

SpecCleanup == InitCleanup /\ [][CleanupOldFiles]_vars

SpecProcess == InitProcess /\ [][ProcessNext]_vars

\* The variant of a feed record compared with a stored variant that holds
\* one numeric field in any representation and is the same otherwise.
InitCompare ==
    /\ JobInit /\ FetchInit /\ ListInit /\ CleanupInit /\ ContainerInit
    /\ \E csvItem \in CsvItems :
         \E name \in {"price", "compare_price", "inventory", "weight"} :
           \E stored \in StoredValues(name) :
             shop = [ ppc             |-> "compare",
                      csvVariant      |-> CsvVariant(csvItem),
                      existingVariant |-> [CsvVariant(csvItem)
                                              EXCEPT ![name] = stored],
                      changes         |-> {} ]

SpecCompare == InitCompare /\ [][CompareVariants]_vars

\* generateHandle applied to every bounded title.
InitHandle ==
    /\ JobInit /\ FetchInit /\ ListInit /\ CleanupInit /\ ContainerInit
    /\ \E title \in Titles :
         shop = [ppc |-> "handle", title |-> title, handles |-> <<>>]

SpecHandle == InitHandle /\ [][GenerateHandle]_vars

\* processProductsFromCSV called by executeJob with the options it reads
\* from the environment; every awaited call and timer settles.
InitDispatch ==
    /\ JobInit /\ FetchInit /\ ListInit /\ CleanupInit /\ ContainerInit
    /\ \E feed \in Feeds, store \in StoreSnapshots, env \in Environments :
         shop = Call(feed, store, processOptions(env))

FairSpecDispatch ==
    InitDispatch /\ [][DispatchNext]_vars /\ WF_vars(DispatchNext)

\* The container manager as its constructor leaves it.
InitContainer ==
    /\ JobInit /\ FetchInit /\ ListInit /\ ShopInit /\ CleanupInit
    /\ container = [ phase          |-> "new",
                     isShuttingDown |-> FALSE,
                     cron           |-> <<>>,
                     health         |-> "none",
                     restartTimers  |-> 0,
                     graceTimers    |-> {},
                     cronTerms      |-> <<>>,
                     healthTerms    |-> 0,
                     signals        |-> 0,
                     shutdowns      |-> 0,
                     fired          |-> 0,
                     exits          |-> <<>> ]

SpecContainer == InitContainer /\ [][ContainerNext]_vars

(***************************************************************************)
(* Properties of ProductDataCronJob                                        *)
(***************************************************************************)
\* Invocation i has passed its isRunning check and has not ended.
Active(i) == pc[i] \notin {"new", "skipped", "ended"}

ActiveRuns == {i \in Invocations : Active(i)}

\* C1: at most one invocation of executeJob / runShopifyOnly /
\* runCreateProductsOnly is past its isRunning check at any time; a trigger
\* that arrives while isRunning is true is skipped without running a stage
\* and without changing isRunning, and a skipped invocation stays skipped
\* (nothing is queued for when the active run ends).
C1_ReentrancyGuard ==
    /\ [](/\ Cardinality(ActiveRuns) <= 1
          /\ \A i \in Invocations : pc[i] = "skipped" => stages[i] = <<>>)
    /\ [][\A i \in Invocations :
            /\ (pc[i] = "new" /\ pc'[i] # "new" /\ isRunning)
                 => (pc'[i] = "skipped" /\ isRunning' /\ stages' = stages)
            /\ pc[i] = "skipped" => pc'[i] = "skipped"]_vars

\* A trigger was skipped, the run that made it skip has ended, and a later
\* trigger of another method is running.
C1_Witness ==
    \E i, j, l \in Invocations :
        /\ pc[i] = "skipped"
        /\ pc[j] = "ended" /\ Len(stages[j]) > 1
        /\ Active(l) /\ kind[l] # kind[j]

\* C2: a run that has passed the guard clears it: when an invocation ends,
\* whichever stage failed, isRunning is false at that moment; isRunning is
\* false whenever no run is active; and (every stage settling) a set flag is
\* eventually cleared.
C2_GuardCleared ==
    /\ [](ActiveRuns = {} => ~isRunning)
    /\ [][\A i \in Invocations :
            (Active(i) /\ pc'[i] = "ended") => ~isRunning']_vars
    /\ (isRunning ~> ~isRunning)

\* An executeJob run failed part-way, ended without throwing, and the next
\* trigger has passed the guard.
C2_Witness ==
    \E i, j \in Invocations :
        /\ kind[i] = "executeJob" /\ pc[i] = "ended" /\ ~threw[i]
        /\ stages[i] = <<"connect", "download", "fileinfo">>
        /\ Active(j) /\ isRunning

(***************************************************************************)
(* Properties of downloadLatestCSV / downloadFile                          *)
(***************************************************************************)
\* What precedes an attempt that follows a failed one.
Reconnected   == <<"sleep", "close", "connect">>
ReconnectLost == <<"sleep", "close", "connectFailed">>

\* C3: downloadLatestCSV makes at most maxRetries (10) attempts; it returns
\* at the first attempt that succeeds, with the file of that attempt, and
\* throws only after 10 failed attempts, with the error of the 10th.
C3_AttemptCeiling ==
    /\ attempt <= 10
    /\ hist.failures <= attempt
    /\ result.status # "none" => fpc = "idle"
    /\ result.status = "returned" =>
         /\ result.attempt = attempt
         /\ hist.failures = attempt - 1
         /\ hist.df = "returned"
         /\ result.file = dest.id /\ dest.id = 1 + calls
    /\ result.status = "threw" =>
         /\ attempt = 10 /\ hist.failures = 10
         /\ result.error.kind # "none" /\ result.error.attempt = 10
         /\ result.error = error

\* All ten attempts failed and the call threw.
C3_Witness == result.status = "threw" /\ result.error.kind = "SizeMismatch"

\* C4 as stated: every attempt after the first follows one wait and a
\* connection that was re-established successfully.
C4_Original ==
    /\ attempt > 1 => hist.before = Reconnected
    /\ result.status # "none" => hist.since = <<>>

\* C4 as amended: every attempt after the first follows exactly one wait,
\* one close and one connect call, in that order, whether or not the connect
\* succeeded; the first attempt follows none; nothing of the kind follows
\* the attempt after which the call settles.
C4_RetryReconnects ==
    /\ attempt = 1 => hist.before = <<>>
    /\ attempt > 1 => hist.before \in {Reconnected, ReconnectLost}
    /\ (attempt > 1 /\ fpc = "list")
         => (connected <=> hist.before = Reconnected)
    /\ result.status # "none" => hist.since = <<>>

\* The call threw after its tenth attempt, which had started although the
\* reconnection before it failed.
C4_Witness == result.status = "threw" /\ hist.before = ReconnectLost

\* downloadFile has been called and has neither returned nor thrown.
InDownloadFile == hist.df = "active"

\* C5: from the call of downloadFile until the download has passed
\* verification, the content of a file that existed at the destination is
\* on disk, at the destination or at the .backup path, in every state.
C5_RollbackPoint ==
    (InDownloadFile /\ ~hist.verified /\ Exists(hist.pre))
        => (dest = hist.pre \/ backup = hist.pre)

\* The catch block has unlinked the partial download and not yet renamed
\* the backup back.
C5_Witness ==
    /\ fpc = "rename" /\ Exists(hist.pre)
    /\ ~Exists(dest) /\ backup = hist.pre

C7_NoBackupLeft ==
    /\ [](/\ hist.df \in {"returned", "threw"} => backup = NoFile
          /\ hist.df = "returned" => (hist.verified /\ dest.id = 1 + calls))
    /\ [][(Exists(backup) /\ ~Exists(backup') /\ dest' = dest)
            => (hist.verified /\ dest.id = 1 + calls /\ fpc = "commit")]_vars
    /\ [][(Exists(backup) /\ ~Exists(backup') /\ dest' # dest)
            => (dest' = backup /\ hist'.df = "threw")]_vars

\* A download over an existing file returned.
C7_Witness ==
    /\ hist.df = "returned" /\ Exists(hist.pre)
    /\ ~Exists(backup) /\ dest.id = 1 + calls

\* The transfer promise resolved, so a failure is verification's.
Resolved == hist.settledBy \in {"transfer", "timer"}

\* C8: with a remote size known (> 0), downloadFile returns only if the
\* local size is within 1024 bytes of it, and fails with a size mismatch
\* otherwise; with no remote size the check is skipped.
C8_SizeVerification ==
    /\ (remoteFileSize > 0 /\ (fpc = "commit" \/ hist.df = "returned"))
         => Abs(dest.size - remoteFileSize) <= 1024
    /\ (Resolved /\ InDownloadFile /\ fpc \in {"restore", "rename"})
         => /\ error.kind = "SizeMismatch" /\ error.attempt = attempt
            /\ remoteFileSize > 0
    /\ (Resolved /\ fpc = "restore")
         => Abs(dest.size - remoteFileSize) > 1024
    /\ (Resolved /\ remoteFileSize = 0) => hist.df # "threw"

\* A file 1025 bytes off the remote size was refused.
C8_Witness ==
    /\ fpc = "restore" /\ error.kind = "SizeMismatch"
    /\ Abs(dest.size - remoteFileSize) = 1025

CsvIndexes == {i \in 1..Len(listing) :
                 listing[i].type = 1 /\ listing[i].ext \in {".csv", ".CSV"}}

NewestIndexes ==
    {i \in CsvIndexes :
       \A j \in CsvIndexes : listing[j].modifiedAt <= listing[i].modifiedAt}

Settled == latest.status \in {"returned", "threw"}

\* C10 as stated: the file returned is a newest CSV file and, among the
\* newest, the one with the greatest name; without a CSV file the call
\* fails and the local files are untouched.
C10_Original ==
    /\ Settled =>
         /\ (CsvIndexes = {} <=> latest.status = "threw")
         /\ latest.status = "returned" =>
              \E i \in NewestIndexes :
                  /\ latest.file = listing[i]
                  /\ \A j \in NewestIndexes \ {i} :
                         NameLess(listing[j], listing[i])
    /\ dest = OrigFile /\ backup = NoFile

\* C10 as amended: the file returned is a newest CSV file and, among the
\* newest, the one that comes first in the listing; without a CSV file the
\* call fails and the local files are untouched.
C10_LatestCsv ==
    /\ Settled =>
         /\ (CsvIndexes = {} <=> latest.status = "threw")
         /\ latest.status = "returned" =>
              \E i \in NewestIndexes :
                  /\ latest.file = listing[i]
                  /\ \A j \in NewestIndexes : i <= j
    /\ dest = OrigFile /\ backup = NoFile

\* Two newest CSV files, the one with the smaller name listed first and
\* returned, behind an older CSV file.
C10_Witness ==
    /\ latest.status = "returned"
    /\ Cardinality(NewestIndexes) = 2
    /\ \E i, j \in NewestIndexes :
         /\ i < j /\ NameLess(listing[i], listing[j])
         /\ latest.file = listing[i]
    /\ \E k \in CsvIndexes \ NewestIndexes : k = 1

(***************************************************************************)
(* Properties of executeJob's connection stage                             *)
(***************************************************************************)
\* C11: when the connection at the start of executeJob cannot be established
\* the run goes straight to its end: the method is in its finally block or
\* has ended, and no stage (no listing or download, no delay, no second
\* connection attempt) has been performed; a download stage is only ever
\* reached through an established connection.
C11_ConnectFailsFast ==
    \A i \in Invocations :
        kind[i] = "executeJob" /\ pc[i] \notin {"new", "skipped", "connect"}
            => \/ stages[i] # <<>> /\ stages[i][1] = "connect"
               \/ stages[i] = <<>> /\ pc[i] \in {"close", "ended"}

\* A run whose connection failed has ended, and the guard is clear again.
C11_Witness ==
    \E i \in Invocations :
        /\ kind[i] = "executeJob" /\ pc[i] = "ended"
        /\ stages[i] = <<>> /\ ~threw[i] /\ ~isRunning

(***************************************************************************)
(* Properties of the reconciliation                                        *)
(***************************************************************************)
\* The positions in a list of items made from feed record n.
ItemsOf(list, n) == {k \in 1..Len(list) : list[k].ref = n}

\* The two indexes of the current snapshot, and the keys of feed record n.
BySku   == existingProductsBySku(shop.existingProducts)
ByTitle == existingProductsByTitle(shop.existingProducts)
SkuOf(n)   == toLowerCase(shop.csvData[n].Item)
TitleOf(n) == toLowerCase(OrElse(shop.csvData[n].Description,
                                 OrElse(shop.csvData[n].Item, "")))

\* Feed record n was matched with existing product e: it is no create
\* item, an update item made from it holds e and the fields that differ
\* from e, and it is left out only if no field differs from e.
MatchedWith(n, e) ==
    /\ ItemsOf(shop.productsToCreate, n) = {}
    /\ \A k \in ItemsOf(shop.productsToUpdate, n) :
           /\ shop.productsToUpdate[k].existingProduct = e
           /\ shop.productsToUpdate[k].changes
                  = doesProductNeedUpdate(shop.csvData[n], e).changes
    /\ ItemsOf(shop.productsToUpdate, n) = {}
           => ~doesProductNeedUpdate(shop.csvData[n], e).hasChanges

\* C12: a feed record whose lowercased SKU is in the SKU index is matched
\* with the entry of the SKU index, whatever the title index holds for its
\* lowercased title; the entry of the title index is the match only when
\* the SKU is not in the SKU index.
C12_SkuBeforeTitle ==
    shop.ppc = "reconciled" =>
        \A n \in 1..Len(shop.csvData) :
            /\ SkuOf(n) \in DOMAIN BySku => MatchedWith(n, BySku[SkuOf(n)])
            /\ (SkuOf(n) \notin DOMAIN BySku /\ TitleOf(n) \in DOMAIN ByTitle)
                   => MatchedWith(n, ByTitle[TitleOf(n)])

\* The two indexes select different products for the record, and the update
\* item holds the one of the SKU index.
C12_Witness ==
    /\ shop.ppc = "reconciled"
    /\ SkuOf(1) \in DOMAIN BySku /\ TitleOf(1) \in DOMAIN ByTitle
    /\ BySku[SkuOf(1)] # ByTitle[TitleOf(1)]
    /\ ~doesProductNeedUpdate(shop.csvData[1], ByTitle[TitleOf(1)]).hasChanges
    /\ Len(shop.productsToUpdate) = 1
    /\ shop.productsToUpdate[1].existingProduct = BySku[SkuOf(1)]

\* The number a price field stands for; an absent price stands for none.
PriceValue(price) == IF Truthy(price) THEN parseFloat(price) ELSE NaN

\* How often a URL occurs in a list of images.
Occurrences(images, url) ==
    Cardinality({k \in 1..Len(images) : images[k] = url})

\* Field `name` of existing product e holds what the mapped feed record m
\* holds: numbers by value, image URLs as a multiset.
SameField(name, m, e) ==
    LET hasVariant == Len(e.variants) > 0
        ev == e.variants[1]
        mv == m.variants[1]
    IN  CASE name = "title"        -> m.title = e.title
          [] name = "description"  -> m.body_html = e.body_html
          [] name = "product_type" -> m.product_type = e.product_type
          [] name = "tags"         -> m.tags = e.tags
          [] name = "status"       -> m.status = e.status
          [] name = "category"     ->
               IF Truthy(m.product_category_id)
                 THEN m.product_category_id = e.product_category_id
                 ELSE ~Truthy(e.product_category_id)
          [] name = "price"        ->
               hasVariant => PriceValue(mv.price) = PriceValue(ev.price)
          [] name = "compare_price" ->
               hasVariant => PriceValue(mv.compare_at_price)
                                 = PriceValue(ev.compare_at_price)
          [] name = "inventory"    ->
               hasVariant => mv.inventory_quantity = ev.inventory_quantity
          [] name = "sku"          -> hasVariant => mv.sku = ev.sku
          [] name = "barcode"      -> hasVariant => mv.barcode = ev.barcode
          [] name = "weight"       -> hasVariant => mv.weight = ev.weight
          [] name = "images"       ->
               \A url \in {"a.jpg", "b.jpg", "c.jpg"} :
                   Occurrences(m.images, url) = Occurrences(e.images, url)

\* The compared fields in which e differs from the mapped feed record m.
Differing(m, e) ==
    {name \in {ChangeNames[k] : k \in 1..Len(ChangeNames)} :
        ~SameField(name, m, e)}

\* The existing product the lookup finds for feed record n.
Found(n) == FindExisting(shop.csvData[n], BySku, ByTitle)

ChangeSet(item) == {item.changes[k] : k \in 1..Len(item.changes)}
VariantChangeSet(item) == ChangeSet(item) \cap VariantChanges

\* The property of the patch that a product-level change names.
PatchProperty(change) ==
    CASE change = "description" -> "body_html"
      [] change = "category"    -> "product_category_id"
      [] OTHER                  -> change

\* The patch of update item k names exactly the changed fields: besides the
\* product's id, one property for each product-level change and, if there
\* is a variant-level change, one variant entry that holds the id of the
\* existing first variant and one property for each variant-level change.
MinimalPatch(k) ==
    LET item  == shop.productsToUpdate[k]
        patch == shop.patches[k]
    IN  /\ DOMAIN patch =
               {"id"}
               \cup {PatchProperty(c) :
                        c \in ChangeSet(item) \ VariantChanges}
               \cup (IF VariantChangeSet(item) = {} THEN {}
                     ELSE {"variants"})
        /\ patch.id = item.existingProduct.id
        /\ VariantChangeSet(item) # {} =>
               /\ Len(patch.variants) = 1
               /\ DOMAIN patch.variants[1] =
                      {"id"} \cup {VariantProperty(c) :
                                      c \in VariantChangeSet(item)}
               /\ patch.variants[1].id = item.existingProduct.variants[1].id

\* C16: a feed record matched with a product that differs from it only in
\* the inventory quantity makes one update item whose changes are exactly
\* <<"inventory">>, and whose patch holds the product's id and one variant
\* entry with the first variant's id and the feed's inventory quantity,
\* and nothing else.
C16_InventoryOnly ==
    shop.ppc = "reconciled" =>
        \A n \in 1..Len(shop.csvData) :
            LET m == mapCSVToShopifyProduct(shop.csvData[n])
            IN  (Found(n) # NoProduct /\ Differing(m, Found(n)) = {"inventory"})
                  => /\ Cardinality(ItemsOf(shop.productsToUpdate, n)) = 1
                     /\ \A k \in ItemsOf(shop.productsToUpdate, n) :
                            /\ shop.productsToUpdate[k].changes = <<"inventory">>
                            /\ DOMAIN shop.patches[k] = {"id", "variants"}
                            /\ shop.patches[k].id = Found(n).id
                            /\ shop.patches[k].variants =
                                   << [id |-> Found(n).variants[1].id,
                                       inventory_quantity |->
                                           m.variants[1].inventory_quantity] >>

\* The product differs in the quantity alone, while it writes the price and
\* orders the images differently.
C16_Witness ==
    /\ shop.ppc = "reconciled"
    /\ Found(1) # NoProduct
    /\ Differing(mapCSVToShopifyProduct(shop.csvData[1]), Found(1)) = {"inventory"}
    /\ Found(1).images # mapCSVToShopifyProduct(shop.csvData[1]).images
    /\ Found(1).variants[1].price
           # mapCSVToShopifyProduct(shop.csvData[1]).variants[1].price
    /\ Len(shop.patches) = 1

\* C17 as stated: the patch of every update item holds exactly the fields
\* named in its changes, the variant-level ones together in one variant
\* entry keyed by the existing first variant's id.
C17_Original ==
    shop.ppc = "reconciled" =>
        \A k \in 1..Len(shop.productsToUpdate) : MinimalPatch(k)

(***************************************************************************)
(* Properties of processProductsFromCSV                                    *)
(***************************************************************************)
\* C13: every feed record gets exactly one outcome: it makes one create
\* item and no update item exactly when the lookup finds no product for it
\* (Create), one update item and no create item only when it was matched
\* (Update), and otherwise no item at all (Skipped); every item of the two
\* lists is made from a record of the feed.
C13_ExactlyOneOutcome ==
    shop.ppc # "idle" =>
        /\ \A n \in 1..Len(shop.csvData) :
               LET creates == Cardinality(ItemsOf(shop.productsToCreate, n))
                   updates == Cardinality(ItemsOf(shop.productsToUpdate, n))
               IN  /\ creates + updates <= 1
                   /\ creates = 1 <=> Found(n) = NoProduct
                   /\ updates = 1 <=>
                          /\ Found(n) # NoProduct
                          /\ shop.options.enableUpdates
                          /\ doesProductNeedUpdate(shop.csvData[n],
                                                   Found(n)).hasChanges
        /\ \A k \in 1..Len(shop.productsToCreate) :
               shop.productsToCreate[k].ref \in 1..Len(shop.csvData)
        /\ \A k \in 1..Len(shop.productsToUpdate) :
               shop.productsToUpdate[k].ref \in 1..Len(shop.csvData)

\* A feed of three records with the three outcomes.
C13_Witness ==
    /\ shop.ppc # "idle"
    /\ Len(shop.csvData) = 3
    /\ Len(shop.productsToCreate) = 1 /\ Len(shop.productsToUpdate) = 1
    /\ \E n \in 1..3 :
           /\ ItemsOf(shop.productsToCreate, n) = {}
           /\ ItemsOf(shop.productsToUpdate, n) = {}

\* The feed records matched with a product none of whose compared fields
\* differs.
Unchanged ==
    {n \in 1..Len(shop.csvData) :
        /\ Found(n) # NoProduct
        /\ Differing(mapCSVToShopifyProduct(shop.csvData[n]), Found(n)) = {}}

\* C15 as stated: when processProductsFromCSV has returned, results.skipped
\* is the number of feed records matched with a product that has no changed
\* field.
C15_Original ==
    shop.ppc = "returned" => shop.results.skipped = Cardinality(Unchanged)

\* The batches a list of n items is cut into with batch size b: batch k
\* holds the positions (k - 1) * b + 1 .. min(k * b, n), in order.
Partition(n, b) ==
    [k \in 1..((n + b - 1) \div b) |->
        [m \in 1..(IF k * b <= n THEN b ELSE n - (k - 1) * b) |->
            (k - 1) * b + m]]

\* C18: the batches sliced so far are the first batches of the partition
\* of the items into consecutive runs of batchSize items, in the order of
\* allProductsToProcess, and when the call has returned they are all of it:
\* ceil(N / B) batches, all but the last of B items, every item in exactly
\* one of them.
C18_BatchPartition ==
    LET parts == Partition(Len(All), shop.options.batchSize)
    IN  /\ Len(shop.batches) <= Len(parts)
        /\ \A b \in 1..Len(shop.batches) : shop.batches[b] = parts[b]
        /\ shop.ppc = "returned" =>
               /\ Len(shop.batches) = Len(parts)
               /\ \A k \in 1..Len(All) :
                      Cardinality({<<b, m>> \in
                          (1..Len(shop.batches)) \X (1..shop.options.batchSize) :
                              m <= Len(shop.batches[b]) /\ shop.batches[b][m] = k}) = 1

\* Three items were processed in a batch of two and a batch of one.
C18_Witness ==
    /\ shop.ppc = "returned"
    /\ shop.options.batchSize = 2
    /\ shop.batches = << <<1, 2>>, <<3>> >>

\* C19 as stated: when processProductsFromCSV has returned, created +
\* updated + skipped + errors is the number of classified feed records.
C19_Original ==
    shop.ppc = "returned" =>
        shop.results.created + shop.results.updated + shop.results.skipped + shop.results.errors
            = Len(shop.csvData)

\* Item k has settled and its outcome has been counted: at once by the
\* sequential processor, after Promise.allSettled by the parallel one.
Aggregated(k) ==
    /\ shop.status[k] \in {"fulfilled", "failed"}
    /\ shop.ppc = "parallel" =>
           \A m \in DOMAIN shop.batches[Len(shop.batches)] :
               shop.batches[Len(shop.batches)][m] # k

\* The counted items with a given outcome and, if given, a given action.
CountedItems(outcome, actions) ==
    {k \in DOMAIN shop.status :
        Aggregated(k) /\ shop.status[k] = outcome /\ All[k].action \in actions}

\* The failed items counted so far, in the order of allProductsToProcess.
FailedSoFar ==
    SelectSeq([k \in DOMAIN shop.status |-> k],
              LAMBDA k : Aggregated(k) /\ shop.status[k] = "failed")

\* C20: in parallel and in sequential mode a failing create or update adds
\* one to errors and one {identifier, message} entry to errorDetails and
\* nothing else: errors and errorDetails hold exactly the failed items,
\* created and updated exactly the fulfilled ones; the call never rejects
\* and never stops short of the remaining items: while it has not returned
\* it has a step to take, and when it has returned every item has been
\* issued once and has been counted.
C20_FailureIsolation ==
    ~shop.options.dryRun =>
        /\ shop.ppc # "threw"
        /\ shop.ppc \notin {"idle", "returned"} => ENABLED ProcessNext
        /\ shop.results.errors = Cardinality(CountedItems("failed",
                                                     {"create", "update"}))
        /\ shop.results.errorDetails =
               [n \in 1..Len(FailedSoFar) |->
                   [csvItem |-> OrElse(All[FailedSoFar[n]].csvItem.Item,
                                       "Unknown"),
                    error |-> "message"]]
        /\ shop.results.created = Cardinality(CountedItems("fulfilled", {"create"}))
        /\ shop.results.updated = Cardinality(CountedItems("fulfilled", {"update"}))
        /\ shop.ppc = "returned" =>
               /\ \A k \in DOMAIN shop.status : Aggregated(k)
               /\ shop.requests = [k \in 1..Len(All) |->
                                 [action |-> All[k].action,
                                  ref |-> All[k].ref]]

\* The first item of the first batch failed; the other item of that batch
\* and the item of the next batch were processed and counted.
C20_Witness ==
    /\ shop.ppc = "returned" /\ ~shop.options.dryRun
    /\ shop.batches = << <<1, 2>>, <<3>> >>
    /\ shop.status = <<"failed", "fulfilled", "fulfilled">>
    /\ shop.results.errors = 1
    /\ shop.results.created + shop.results.updated = 2

(***************************************************************************)
(* Properties of the dispatch of the batches                               *)
(***************************************************************************)
\* The items whose create or update is awaited.
InFlight == {k \in DOMAIN shop.status : shop.status[k] = "pending"}

\* At most one item is in flight, every item before it has settled and no
\* item after it has been issued.
OneAtATime ==
    /\ Cardinality(InFlight) <= 1
    /\ \A k \in InFlight :
           \A m \in DOMAIN shop.status :
               /\ m < k => shop.status[m] \in {"fulfilled", "failed"}
               /\ m > k => shop.status[m] = "waiting"

\* This step issues an item that is not the first of its batch.
IssuesNextOfBatch ==
    /\ shop'.ppc = "item" /\ shop'.cursor > 1
    /\ shop.status[shop'.offset + shop'.cursor] = "waiting"

\* C21 as stated: with parallelBatch false at most one item is in flight,
\* the items are issued in the order of allProductsToProcess, each after the
\* one before it has settled, and every item but the first of its batch is
\* issued by the end of the 100 ms delay that follows the item before it.
C21_Original ==
    /\ [](~shop.options.parallelBatch => OneAtATime)
    /\ [][~shop.options.parallelBatch /\ IssuesNextOfBatch
              => shop.ppc = "itemDelay"]_vars

\* The items of the batches before batch b.
EarlierItems(b) ==
    {shop.batches[a][m] : <<a, m>> \in
        {x \in (1..(b - 1)) \X (1..MaxBatchSize) : x[2] <= Len(shop.batches[x[1]])}}

ItemSettled(k) == shop.status[k] \in {"fulfilled", "failed"}

\* ceil(n / b)
CeilDiv(n, b) == (n + b - 1) \div b

\* C22: an item of a batch is issued only when every item of the batches
\* before it has settled and a delay has been begun and ended after each of
\* them: one delay per batch sliced but the first; while a delay lasts
\* another batch is still to come; and when the call has returned
\* ceil(N / B) - 1 delays have been taken if there were items, none
\* otherwise.
C22_BatchBarrier ==
    /\ \A b \in 1..Len(shop.batches) :
           \A m \in 1..Len(shop.batches[b]) :
               shop.status[shop.batches[b][m]] # "waiting" =>
                   \A k \in EarlierItems(b) : ItemSettled(k)
    /\ Len(shop.batches) >= 1 =>
           shop.delays = Len(shop.batches) - 1
                           + (IF shop.ppc = "delay" THEN 1 ELSE 0)
    /\ shop.ppc = "delay" =>
           /\ \A k \in EarlierItems(Len(shop.batches) + 1) : ItemSettled(k)
           /\ Len(shop.batches) < CeilDiv(Len(All), shop.options.batchSize)
    /\ shop.ppc = "returned" =>
           shop.delays = IF Len(All) > 0
                           THEN CeilDiv(Len(All), shop.options.batchSize) - 1
                           ELSE 0

\* Three items went out in three parallel batches of one with two delays.
C22_Witness ==
    /\ shop.ppc = "returned"
    /\ shop.options.parallelBatch /\ ~shop.options.dryRun
    /\ Len(shop.batches) = 3
    /\ shop.delays = 2

\* C23: in a dry run no create and no update call is ever sent, no item
\* fails, and every settled item resolved with success under a type that
\* is neither 'created' nor 'updated', so that nothing is counted as
\* created or updated.
C23_DryRunNoWrite ==
    shop.options.dryRun =>
        /\ shop.requests = <<>>
        /\ \A k \in DOMAIN shop.status :
               /\ shop.status[k] # "failed"
               /\ shop.status[k] = "fulfilled" =>
                      ResultType(All[k].action, shop.options.dryRun)
                          \notin {"created", "updated"}
        /\ shop.results.created = 0 /\ shop.results.updated = 0
        /\ shop.results.errors = 0
        /\ shop.ppc = "returned" =>
               \A k \in DOMAIN shop.status : shop.status[k] = "fulfilled"

\* A dry run over a create item and an update item has returned.
C23_Witness ==
    /\ shop.ppc = "returned" /\ shop.options.dryRun
    /\ Len(shop.productsToCreate) >= 1 /\ Len(shop.productsToUpdate) >= 1
    /\ shop.requests = <<>>

\* C24 as stated: when a dry run has returned, results.created is the
\* number of create items and results.updated the number of update items.
C24_Original ==
    shop.ppc = "returned" /\ shop.options.dryRun =>
        /\ shop.results.created = Len(shop.productsToCreate)
        /\ shop.results.updated = Len(shop.productsToUpdate)

\* The number of create / update calls sent for item k.
CallsFor(reqs, k) ==
    Cardinality({n \in 1..Len(reqs) : reqs[n] = Request(All, k)})

\* C25: in a run that is not a dry run createProduct / updateProduct is
\* called at most once for each item, and exactly once for an item that
\* has been issued; a failed item stays failed and no step sends another
\* call for it; and when the call has returned every item, also every one
\* after a failed item, has been sent once and has settled.
C25_NoItemRetry ==
    /\ [](~shop.options.dryRun =>
            /\ \A k \in DOMAIN shop.status :
                   CallsFor(shop.requests, k)
                       = IF shop.status[k] = "waiting" THEN 0 ELSE 1
            /\ Len(shop.requests)
                   = Cardinality({k \in DOMAIN shop.status :
                                     shop.status[k] # "waiting"})
            /\ shop.ppc = "returned" =>
                   \A k \in DOMAIN shop.status : ItemSettled(k))
    /\ [][\A k \in DOMAIN shop.status :
              shop.status[k] = "failed" =>
                  /\ shop'.status[k] = "failed"
                  /\ CallsFor(shop'.requests, k) = CallsFor(shop.requests, k)
         ]_vars

\* Sequential processing: the first item failed and the second, issued
\* after it, was fulfilled; each was sent once.
C25_Witness ==
    /\ shop.ppc = "returned"
    /\ ~shop.options.parallelBatch /\ ~shop.options.dryRun
    /\ shop.status = <<"failed", "fulfilled">>
    /\ Len(shop.requests) = 2

\* What becomes of feed record n: "create", "update" or "skip".
ClassOf(lists, n) ==
    IF ItemsOf(lists.productsToCreate, n) # {} THEN "create"
    ELSE IF ItemsOf(lists.productsToUpdate, n) # {} THEN "update"
    ELSE "skip"

\* What becomes of feed record n when it is the only record of the feed.
ClassAlone(n) ==
    ClassOf(categorizeProducts(<<shop.csvData[n]>>, BySku, ByTitle,
                               shop.options.enableUpdates), 1)

\* C26: no step of the call changes the snapshot, from which the two
\* indexes are built, and once the records are classified no step of the
\* dispatch changes the two lists; every record is classified as it would
\* be alone against the snapshot, whatever the other records of the feed
\* are and whatever was created or updated for them: two records with the
\* same SKU that the snapshot does not hold are both create items.
C26_SnapshotReadOnly ==
    /\ [](shop.ppc # "idle" =>
            /\ \A n \in 1..Len(shop.csvData) :
                   ClassOf(shop, n) = ClassAlone(n)
            /\ \A n, m \in 1..Len(shop.csvData) :
                   (/\ n # m /\ SkuOf(n) = SkuOf(m)
                    /\ Found(n) = NoProduct /\ Found(m) = NoProduct)
                       => /\ ItemsOf(shop.productsToCreate, n) # {}
                          /\ ItemsOf(shop.productsToCreate, m) # {})
    /\ [][/\ shop'.existingProducts = shop.existingProducts
          /\ shop'.csvData = shop.csvData
          /\ shop.ppc # "idle" =>
                 /\ shop'.productsToCreate = shop.productsToCreate
                 /\ shop'.productsToUpdate = shop.productsToUpdate]_vars

\* Two records with the SKU Z9, which the store does not have, were both
\* created, the second after the create of the first had been fulfilled.
C26_Witness ==
    /\ shop.ppc = "returned" /\ ~shop.options.dryRun
    /\ Len(shop.csvData) >= 2
    /\ shop.csvData[1].Item = "Z9" /\ shop.csvData[2].Item = "Z9"
    /\ Found(1) = NoProduct
    /\ ItemsOf(shop.productsToCreate, 1) # {}
    /\ ItemsOf(shop.productsToCreate, 2) # {}
    /\ shop.results.created >= 2

(***************************************************************************)
(* Properties of executeJob's stages                                       *)
(***************************************************************************)
\* The stages of a run in the order they are to occur: connect, download,
\* parse, snapshot fetch, reconcile / dispatch, snapshot persist, cleanup.
StageOrder == <<"connect", "download", "parse", "fetch", "dispatch",
                "persist", "cleanup">>

IsPrefix(s, t) == Len(s) <= Len(t) /\ \A n \in 1..Len(s) : s[n] = t[n]

\* Invocation i of executeJob is awaiting a stage.
InStage(i) ==
    /\ kind[i] = "executeJob"
    /\ pc[i] \in {ExecStages[n] : n \in 1..Len(ExecStages)}

\* C27: the stages an executeJob run has completed are the first stages of
\* the fixed order, the stage it awaits is the one after the last completed
\* one, at most one run is in a stage at any time, a stage that ends
\* without completing sends the run to its finally block, and a run in its
\* finally block or ended completes no further stage.
C27_StageOrdering ==
    /\ [](\A i \in Invocations :
            kind[i] = "executeJob" =>
                /\ IsPrefix(stages[i], ExecStages)
                /\ IsPrefix(SelectSeq(stages[i], LAMBDA s : s # "fileinfo"),
                            StageOrder)
                /\ InStage(i) => pc[i] = ExecStages[Len(stages[i]) + 1]
                /\ pc[i] \in {"new", "skipped"} => stages[i] = <<>>)
    /\ [](Cardinality({i \in Invocations : InStage(i)}) <= 1)
    /\ [][\A i \in Invocations :
            /\ (InStage(i) /\ pc'[i] # pc[i] /\ stages'[i] = stages[i])
                   => pc'[i] = "close"
            /\ (kind[i] = "executeJob" /\ pc[i] \in {"close", "ended"})
                   => stages'[i] = stages[i]]_vars

\* One run completed every stage; another failed while parsing and ended
\* with the stages before it.
C27_Witness ==
    \E i, j \in Invocations :
        /\ kind[i] = "executeJob" /\ pc[i] = "ended"
        /\ stages[i] = ExecStages
        /\ kind[j] = "executeJob" /\ pc[j] = "ended"
        /\ stages[j] = <<"connect", "download", "fileinfo">>

\* Invocation i of executeJob is in its finally block or has ended, and a
\* stage before the end of the try block failed.
FailedRun(i) ==
    /\ kind[i] = "executeJob" /\ pc[i] \in {"close", "ended"}
    /\ Len(stages[i]) < Len(ExecStages)

\* C28: an executeJob run in which a stage failed ends without throwing;
\* it has written no snapshot (the persist stage has not completed in it);
\* the step that ends it clears isRunning, and a trigger that comes when no
\* run is active passes the guard and starts its first stage.
C28_FailureContained ==
    /\ [](\A i \in Invocations :
            /\ (kind[i] = "executeJob" /\ pc[i] = "ended") => ~threw[i]
            /\ FailedRun(i) =>
                   \A n \in 1..Len(stages[i]) : stages[i][n] # "persist")
    /\ [][\A i \in Invocations :
            /\ (FailedRun(i) /\ pc[i] = "close" /\ pc'[i] # "close")
                   => (pc'[i] = "ended" /\ ~isRunning')
            /\ (pc[i] = "new" /\ pc'[i] # "new" /\ ActiveRuns = {})
                   => (pc'[i] = FirstPc(kind'[i]) /\ isRunning')]_vars

\* A run failed while writing the snapshot and ended without throwing; the
\* trigger after it passed the guard.
C28_Witness ==
    \E i, j \in Invocations :
        /\ FailedRun(i) /\ pc[i] = "ended" /\ ~threw[i]
        /\ stages[i] = <<"connect", "download", "fileinfo", "parse",
                         "fetch", "dispatch">>
        /\ i < j /\ Active(j)

(***************************************************************************)
(* Properties of cleanupOldFiles                                           *)
(***************************************************************************)
\* The number of days configured: KEEP_FILES_DAYS, by default 7.
ConfiguredDays(env) == IF env = undefined THEN 7 ELSE parseInt(env)

\* C29 as stated: cleanupOldFiles returns without throwing, and it has
\* deleted exactly the regular files of the directory that were modified
\* more than the configured number of days ago.
C29_Original ==
    cleanup.cpc # "idle" =>
        /\ cleanup.cpc = "returned"
        /\ cleanup.deleted =
               {n \in 1..Len(cleanup.files) :
                   /\ cleanup.files[n].kind = "file"
                   /\ Now - cleanup.files[n].mtime > ConfiguredDays(cleanup.env)}

(***************************************************************************)
(* Properties of downloadWithProgress's progress timer                     *)
(***************************************************************************)
\* C30 as stated: the progress timer never settles the download; only the
\* transfer call and the write stream do.
C30_Original == hist.settledBy # "timer"

\* C30: the progress timer settles the download only when the expected size
\* is known and the size of the local file has reached it, and then it
\* resolves the download, changing neither the file nor the error; with no
\* expected size the download is settled by the transfer call or the write
\* stream alone.
C30_TimerAtExpectedSize ==
    [][(fpc = "transfer" /\ fpc' # "transfer" /\ epoch' = epoch) =>
          /\ hist'.settledBy \in {"timer", "transfer", "Transfer", "Stream"}
          /\ hist'.settledBy = "timer" =>
                 /\ remoteFileSize > 0 /\ dest.size >= remoteFileSize
                 /\ fpc' = "verify" /\ dest' = dest /\ error' = error
          /\ remoteFileSize = 0 => hist'.settledBy # "timer"]_vars

\* The timer resolved the download while the transfer call was pending.
C30_Witness ==
    /\ fpc = "verify" /\ hist.settledBy = "timer"
    /\ remoteFileSize > 0 /\ dest.size >= remoteFileSize

(***************************************************************************)
(* Properties of the comparator                                            *)
(***************************************************************************)
\* The compared fields in which existing product e differs from the mapped
\* feed record m, the category being the id the mapping chose.
DifferingFields(m, e) ==
    (Differing(m, e) \ {"category"})
        \cup (IF m.category # e.product_category_id THEN {"category"}
              ELSE {})

\* C31 as stated: for a matched record the names in changes are exactly
\* the compared fields whose mapped value differs from the existing
\* product's, 'category' among them when the category ids differ, and when
\* there is one an update item carries exactly those names.
C31_Original ==
    (shop.ppc = "reconciled" /\ Found(1) # NoProduct) =>
        LET m       == mapCSVToShopifyProduct(shop.csvData[1])
            changes == doesProductNeedUpdate(shop.csvData[1], Found(1)).changes
        IN  /\ {changes[k] : k \in 1..Len(changes)}
                   = DifferingFields(m, Found(1))
            /\ DifferingFields(m, Found(1)) # {} =>
                   /\ Len(shop.productsToUpdate) = 1
                   /\ ChangeSet(shop.productsToUpdate[1])
                          = DifferingFields(m, Found(1))

\* The number a stored value stands for (NaN when it stands for none):
\* prices in hundredths, quantities and grams whole.
NumberOf(v) ==
    CASE v.type = "number" -> v.num
      [] v.type = "string" ->
           (CASE v.str = "5"  -> 5
              [] v.str = "7"  -> 7
              [] v.str = "57" -> 57
              [] OTHER        -> parseFloat(v.str))
      [] OTHER -> NaN

NumericNames == {"price", "compare_price", "inventory", "weight"}

\* C32 as stated: for price, compare price, inventory quantity and weight,
\* a mapped value and a stored value that stand for the same number add no
\* entry to changes, whether the store holds a number or a numeric string.
C32_Original ==
    shop.ppc = "compared" =>
        \A name \in NumericNames :
            (/\ NumberOf(shop.csvVariant[name]) # NaN
             /\ NumberOf(shop.csvVariant[name])
                    = NumberOf(shop.existingVariant[name]))
                => name \notin shop.changes

\* C33 as stated: an optional field that the feed record does not have
\* (tags, barcode, compare price, images) and that the matched product
\* holds as null, as the empty string or as no image adds no entry to
\* changes, and the record is not made an update item on that account.
C33_Original ==
    (shop.ppc = "reconciled" /\ Found(1) # NoProduct
        /\ Len(Found(1).variants) > 0) =>
        LET m       == mapCSVToShopifyProduct(shop.csvData[1])
            e       == Found(1)
            changes == doesProductNeedUpdate(shop.csvData[1], e).changes
            names   == {changes[k] : k \in 1..Len(changes)}
            absent  ==
                (IF m.tags = "" /\ ~Truthy(e.tags) THEN {"tags"} ELSE {})
                \cup (IF m.variants[1].barcode = ""
                         /\ ~Truthy(e.variants[1].barcode)
                        THEN {"barcode"} ELSE {})
                \cup (IF m.variants[1].compare_at_price = null
                         /\ ~Truthy(e.variants[1].compare_at_price)
                        THEN {"compare_price"} ELSE {})
                \cup (IF m.images = <<>> /\ e.images = <<>>
                        THEN {"images"} ELSE {})
        IN  /\ names \cap absent = {}
            /\ Differing(m, e) \subseteq absent => shop.productsToUpdate = <<>>

\* Two lists of image URLs hold the same URLs the same number of times.
SameImages(a, b) ==
    \A url \in {"a.jpg", "b.jpg", "c.jpg"} :
        Occurrences(a, url) = Occurrences(b, url)

\* C34: when the matched product holds the same image URLs as the mapped
\* feed record, in whatever order, 'images' is not among the changes; and
\* the comparison leaves the snapshot, the order of its image lists
\* included, as it was.
C34_ImageOrderIndependent ==
    /\ [](shop.ppc = "reconciled" =>
            \A n \in 1..Len(shop.csvData) :
                (/\ Found(n) # NoProduct
                 /\ SameImages(mapCSVToShopifyProduct(shop.csvData[n]).images,
                               Found(n).images))
                    => /\ ~Changed("images",
                                   mapCSVToShopifyProduct(shop.csvData[n]),
                                   Found(n))
                       /\ \A k \in ItemsOf(shop.productsToUpdate, n) :
                              "images" \notin ChangeSet(shop.productsToUpdate[k]))
    /\ [][shop'.existingProducts = shop.existingProducts]_vars

\* The matched product lists the record's two images in the opposite
\* order, still does so after the comparison, and the update made for
\* another field does not name the images.
C34_Witness ==
    /\ shop.ppc = "reconciled"
    /\ Found(1) # NoProduct
    /\ Len(Found(1).images) = 2
    /\ Found(1).images
           = Reverse(mapCSVToShopifyProduct(shop.csvData[1]).images)
    /\ Found(1).images # mapCSVToShopifyProduct(shop.csvData[1]).images
    /\ Found(1) \in {shop.existingProducts[k] :
                        k \in 1..Len(shop.existingProducts)}
    /\ Len(shop.productsToUpdate) = 1
    /\ "images" \notin ChangeSet(shop.productsToUpdate[1])

\* The positions of the snapshot products that have a variant whose SKU,
\* lowercased, is key, and of those whose title, lowercased, is key.
SkuHolders(key) ==
    {k \in 1..Len(shop.existingProducts) :
        \E v \in 1..Len(shop.existingProducts[k].variants) :
            /\ Truthy(shop.existingProducts[k].variants[v].sku)
            /\ toLowerCase(shop.existingProducts[k].variants[v].sku) = key}
TitleHolders(key) ==
    {k \in 1..Len(shop.existingProducts) :
        toLowerCase(shop.existingProducts[k].title) = key}

\* The product at the greatest of the positions.
LastOf(positions) ==
    shop.existingProducts[CHOOSE n \in positions :
                              \A k \in positions : k <= n]

\* C35: a feed record whose lowercased SKU is the lowercased SKU of
\* several snapshot products, whatever the letter case of each, is matched
\* with the one that comes last in the snapshot, and a record matched by
\* title with the last product that has its lowercased title; classifying
\* the records raises no error and counts none in the results.
C35_LastWriteWins ==
    shop.ppc = "reconciled" =>
        /\ \A n \in 1..Len(shop.csvData) :
               /\ (Truthy(SkuOf(n)) /\ SkuHolders(SkuOf(n)) # {})
                      => MatchedWith(n, LastOf(SkuHolders(SkuOf(n))))
               /\ (/\ ~(Truthy(SkuOf(n)) /\ SkuHolders(SkuOf(n)) # {})
                   /\ Truthy(TitleOf(n)) /\ TitleHolders(TitleOf(n)) # {})
                      => MatchedWith(n, LastOf(TitleHolders(TitleOf(n))))
        /\ shop.results.errors = 0
        /\ shop.results.errorDetails = <<>>

\* Two products hold the record's SKU, one as Q1 and after it one as q1,
\* and the update item made for the record Q1 holds the second.
C35_Witness ==
    /\ shop.ppc = "reconciled"
    /\ shop.csvData[1].Item = "Q1"
    /\ SkuHolders("q1") = {1, 2}
    /\ shop.existingProducts[1].variants[1].sku = "Q1"
    /\ shop.existingProducts[2].variants[1].sku = "q1"
    /\ Len(shop.productsToUpdate) = 1
    /\ shop.productsToUpdate[1].existingProduct = shop.existingProducts[2]
    /\ shop.results.errors = 0

(***************************************************************************)
(* Properties of generateHandle                                            *)
(***************************************************************************)
\* C36 as stated: the handle of a handle is that handle, for every title,
\* those longer than the limit and those without a letter, digit, space or
\* hyphen included.
C36_Original ==
    (shop.ppc = "handle" /\ Len(shop.handles) >= 2) =>
        shop.handles[2] = shop.handles[1]

(***************************************************************************)
(* Properties of the dispatch under the configured options                 *)
(***************************************************************************)
\* C37 as stated: whatever batch size the environment supplies, the batch
\* loop comes to its end, processProductsFromCSV returns, and every item
\* has been handed to its processor by then.
C37_Original ==
    <>(/\ shop.ppc = "returned"
       /\ \A k \in DOMAIN shop.status : shop.status[k] # "waiting")

(***************************************************************************)
(* Properties of runCreateProductsOnly                                     *)
(***************************************************************************)
\* C38 as stated: an invocation of runCreateProductsOnly that found a CSV
\* file and parsed it hands the records to createProductsFromCSV (the
\* completed parse stage is followed by the create stage); and if no call
\* it awaits fails, so that it ends without throwing, it has completed
\* parse, create and the writing of the results file, and isRunning is
\* false once it has ended and no other invocation is running.
C38_Original ==
    /\ [][\A i \in Invocations :
              (/\ kind[i] = "runCreateProductsOnly"
               /\ stages'[i] = Append(stages[i], "parse"))
                  => pc'[i] = "create"]_vars
    /\ [](\A i \in Invocations :
              (kind[i] = "runCreateProductsOnly" /\ pc[i] = "ended") =>
                  /\ ~threw[i] =>
                         stages[i] = <<"readdir", "fileinfo", "parse",
                                       "create", "persist">>
                  /\ ActiveRuns = {} => ~isRunning)

(***************************************************************************)
(* Properties of ContainerManager                                          *)
(***************************************************************************)
\* The cron children that are alive.
AliveCron ==
    {k \in 1..Len(container.cron) : container.cron[k] = "alive"}

\* C39: at most one cron child is alive at any time; a cron child that
\* exits while the container is not shutting down arms the restart timer,
\* and the timer, firing while the container is not shutting down, starts
\* one new cron child; once shutdown has begun no cron child is started,
\* also not by a restart timer that was pending when it began.
C39_SupervisedRestart ==
    /\ [](Cardinality(AliveCron) <= 1)
    /\ [][/\ (/\ ~container.isShuttingDown
              /\ container'.phase = "running"
              /\ Cardinality(AliveCron') < Cardinality(AliveCron))
                 => container'.restartTimers = container.restartTimers + 1
          /\ (/\ ~container'.isShuttingDown
              /\ container'.fired > container.fired)
                 => /\ Len(container'.cron) = Len(container.cron) + 1
                    /\ container'.cron[Len(container'.cron)] = "alive"
          /\ container.isShuttingDown
                 => /\ container'.isShuttingDown
                    /\ container'.cron \in {container.cron}
                             \cup {[container.cron EXCEPT ![k] = "exited"] :
                                      k \in 1..Len(container.cron)}
                    /\ container'.restartTimers <= container.restartTimers
         ]_vars

\* The cron child exited, was restarted by the timer, the second child
\* exited too, and shutdown began while its restart timer was pending: the
\* timer has fired since and there is no third child.
C39_Witness ==
    /\ container.isShuttingDown
    /\ container.cron = <<"exited", "exited">>
    /\ container.fired = 2
    /\ container.restartTimers = 0

\* C40: however many signals and exceptions arrive, shutdown() gets past
\* its first test once; no child is sent SIGTERM more than once; once the
\* container is shutting down, the exit of a child neither arms a restart
\* nor makes the process exit with code 1; and the process exits at most
\* once, with code 0 only when shutting down after both 5 s timers fired.
C40_ShutdownOnce ==
    /\ [](/\ container.shutdowns <= 1
          /\ container.isShuttingDown <=> container.shutdowns = 1
          /\ container.healthTerms <= 1
          /\ \A k \in 1..Len(container.cronTerms) :
                 container.cronTerms[k] <= 1
          /\ Len(container.exits) <= 1
          /\ container.phase = "exited" <=> Len(container.exits) = 1
          /\ container.exits = <<0>> =>
                 /\ container.isShuttingDown
                 /\ container.graceTimers = {}
          /\ container.isShuttingDown /\ container.phase = "running" =>
                 container.graceTimers # {})
    /\ [][container.isShuttingDown =>
              /\ container'.restartTimers <= container.restartTimers
              /\ Len(container'.cron) = Len(container.cron)
              /\ container'.exits \in {container.exits, <<0>>}
              /\ container'.exits = <<0>> /\ container.exits = <<>>
                     => container.graceTimers # {"cron", "health"}
         ]_vars

\* Two signals arrived, the cron child was sent SIGTERM once and exited
\* during the shutdown, and the process exited with code 0.
C40_Witness ==
    /\ container.signals = 2
    /\ container.shutdowns = 1
    /\ container.cron = <<"exited">>
    /\ container.cronTerms = <<1>>
    /\ container.healthTerms = 1
    /\ container.restartTimers = 0
    /\ container.exits = <<0>>

====
